---- MODULE Spec2Model ----
(***************************************************************************)
(* Distance caching and batch completion of the transport-distance app.    *)
(*                                                                         *)
(* The stores are the three Prisma tables (Source, Destination, Distance). *)
(* Every HTTP request is a process: one step per awaited database          *)
(* statement; a call of the external provider touches no store, so it is   *)
(* folded into the step of the database statement that follows it.         *)
(*                                                                         *)
(* The handlers are those of the /api/distances route (GET: the four       *)
(* completion scopes and the paginated list), the source and destination   *)
(* scopes of the /api/calculate route, the statistics route, the POST, PUT *)
(* and DELETE routes of destinations, the DELETE route of sources, and the *)
(* page loader of the browser.  The functions of the provider adapter      *)
(* (single distance, batch of distances, geocoding with fallbacks) are     *)
(* also run on their own.                                                  *)
(***************************************************************************)
EXTENDS Integers, Sequences, FiniteSets, Bags, TLC

(***************************************************************************)
(* Bounds of the model.                                                    *)
(***************************************************************************)
MaxSource == 2
MaxDestination == 3
MaxRequest == 2
\* The destinations present when requests run concurrently.
MaxConcurrentDestination == 2
\* The pages and page sizes of the list requests.
MaxPage == 3
MaxLimit == 2

SourceIds == 1..MaxSource
DestinationIds == 1..MaxDestination
Requests == 1..MaxRequest
Pairs == SourceIds \X DestinationIds

(***************************************************************************)
(* Program constants.  The counts are scaled down (the code's production   *)
(* values are 25, 5, 50, 10, 25 and 1000): the model keeps their order     *)
(* FALLBACK_LIMIT < BATCH_SIZE_LIMIT and a batch that needs more than one  *)
(* provider request (maxDestinationsPerRequest < BATCH_SIZE_LIMIT).  The   *)
(* times are the code's production values, in milliseconds.                *)
(***************************************************************************)
BATCH_SIZE_LIMIT == 3
FALLBACK_LIMIT == 2
MAX_CALCULATIONS == 2
maxOriginsPerRequest == 1
maxDestinationsPerRequest == 2
LOAD_LIMIT == 2
timeLimit == 25000
timeLimitBuffer == 5000
BATCH_TIMEOUT == 30000
fallbackDelay == 200
timeoutMs == 30000
rateLimitEvery == 10
rateLimitDelay == 1000

\* The instants a request can read from the clock: below both thresholds of
\* calculateDistancesFromSource, between them, and above both.
ClockValues == {0, timeLimit - timeLimitBuffer + 1, timeLimit + 1}

VARIABLES
    sources,          \* ids of the Source rows
    destinations,     \* ids of the Destination rows
    destCoords,       \* ids of the Destination rows that have latitude and longitude
    srcName,          \* source id -> name
    dstName,          \* destination id -> name
    dstPincode,       \* destination id -> pincode (empty: none)
    distances,        \* the Distance table: a bag of rows
    noRoute,          \* the pairs for which the provider finds no route
    apiKey,           \* GOOGLE_MAPS_API_KEY is configured
    overQuota,        \* the provider may refuse a request (quota, denied)
    pincodeUnique,    \* the database has a unique index on Destination.pincode
    req,              \* request slot -> the request running in it
    prev,             \* the run that ended last, and the rows it left
    client,           \* the page loader of the browser
    adapter           \* a call of the provider adapter on its own, and its outcome

vars == <<sources, destinations, destCoords, srcName, dstName, dstPincode,
          distances, noRoute, apiKey, overQuota, pincodeUnique, req, prev,
          client, adapter>>

stores == <<sources, destinations, destCoords, srcName, dstName, distances>>
\* What no handler of the distances, statistics and delete routes changes.
world == <<noRoute, apiKey, overQuota, dstPincode, pincodeUnique, prev, client,
           adapter>>

(***************************************************************************)
(* Names: sequences of characters, ordered by character code.              *)
(***************************************************************************)
Chars == {"A", "a", "B", "b"}
CharCode == [c \in Chars |-> CASE c = "A" -> 65 [] c = "B" -> 66
                                [] c = "a" -> 97 [] c = "b" -> 98]
ToLower == [c \in Chars |-> CASE c = "A" -> "a" [] c = "B" -> "b"
                               [] OTHER -> c]

RECURSIVE NameLess(_, _)
NameLess(x, y) ==
    IF y = <<>> THEN FALSE
    ELSE IF x = <<>> THEN TRUE
    ELSE IF CharCode[Head(x)] # CharCode[Head(y)]
         THEN CharCode[Head(x)] < CharCode[Head(y)]
         ELSE NameLess(Tail(x), Tail(y))

Range(s) == {s[k] : k \in 1..Len(s)}

Lower(name) == [k \in 1..Len(name) |-> ToLower[name[k]]]

\* x.localeCompare(y) < 0: the letters decide; between names of the same
\* letters, the first difference of case does, lower case first.
LocaleLess(x, y) ==
    IF Lower(x) # Lower(y) THEN NameLess(Lower(x), Lower(y))
    ELSE \E k \in 1..Len(x) :
            /\ x[k] # y[k]
            /\ x[k] = ToLower[x[k]]
            /\ \A j \in 1..(k - 1) : x[j] = y[j]

\* (The order of the database: that of the character codes is taken here.)
\* The answers a findMany ... orderBy: { name: 'asc' } can give for the ids
\* S: every arrangement of S in ascending name order (rows whose names tie
\* come in an order the database chooses).
OrderedByName(S, name) ==
    {q \in [1..Cardinality(S) -> S] :
        /\ Range(q) = S
        /\ \A a, b \in 1..Cardinality(S) :
              a < b => ~NameLess(name[q[b]], name[q[a]])}

Min(a, b) == IF a < b THEN a ELSE b

(***************************************************************************)
(* The Distance table.                                                     *)
(***************************************************************************)
\* A Distance row.  Its distance (and duration) is named by the pair the
\* provider computed it for.
Row(s, d, v) == [sourceId |-> s, destinationId |-> d, distance |-> v]

DistanceRows == BagToSet(distances)

HasRow(s, d) == \E x \in DistanceRows : x.sourceId = s /\ x.destinationId = d

\* The rows findUnique / findMany return for a set of pairs.
RowsFor(P) == {x \in DistanceRows : <<x.sourceId, x.destinationId>> \in P}

RowCount(S) == BagCardinality([x \in (S \cap DistanceRows) |-> distances[x]])

\* prisma.distance.create succeeds: both foreign keys resolve, and the
\* composite unique key (sourceId, destinationId) is free.
CreateUnchecked(s, d) == s \in sources /\ d \in destinations
CreateSucceeds(s, d) ==
    /\ s \in sources
    /\ d \in destinations
    /\ ~HasRow(s, d)

\* The pair a create that throws P2002 collided on (none when it throws for a
\* missing Source or Destination).
Conflict(s, d) == IF HasRow(s, d) THEN {<<s, d>>} ELSE {}

DistanceCreate(s, d, v) == distances (+) SetToBag({Row(s, d, v)})

\* A lookup by id that finds a row whatever the id.
findAny(id, table) == TRUE

\* prisma.source.findUnique / prisma.destination.findUnique({ where: { id } })
\* returns a row (and not null).
findUnique(id, table) == id \in table

\* A delete that leaves the Distance rows where they are.
NoCascade(s) == distances

\* onDelete: Cascade of Distance.source and Distance.destination.
CascadeSource(s) ==
    [x \in {y \in DistanceRows : y.sourceId # s} |-> distances[x]]
CascadeDestination(d) ==
    [x \in {y \in DistanceRows : y.destinationId # d} |-> distances[x]]

(***************************************************************************)
(* Requests.                                                               *)
(***************************************************************************)
NoPagination == [page |-> 0, limit |-> 0, total |-> 0, pages |-> 0,
                 hasMore |-> FALSE]

NoStats == [sources |-> 0, destinations |-> 0, calculatedDistances |-> 0,
            totalPossibleDistances |-> 0, missingDistances |-> 0,
            completionPercentage |-> 0]

IdleReq ==
    [op |-> "idle", pc |-> "idle", sourceId |-> 0, destinationId |-> 0,
     calculate |-> FALSE, stats |-> NoStats, counted |-> {},
     name |-> <<>>, pincode |-> <<>>, coordinates |-> FALSE,
     destinations |-> <<>>, sources |-> <<>>, existing |-> {},
     missing |-> <<>>, toProcess |-> <<>>, batchResults |-> <<>>, i |-> 0,
     calculationCount |-> 0, unordered |-> {}, results |-> <<>>,
     elapsed |-> 0, count |-> 0,
     page |-> 0, limit |-> 0, sourceFilter |-> <<>>, destinationFilter |-> <<>>,
     totalCount |-> 0, pagination |-> NoPagination,
     status |-> 0, timeout |-> FALSE, deletedDistances |-> 0,
     \* history of the run, read by the properties only
     batchRequests |-> 0, singleCalls |-> 0, called |-> {},
     conflict |-> {}, budgetExit |-> FALSE, fallbackCause |-> "none",
     batchFailed |-> FALSE, geocodeCalls |-> 0, location |-> "none",
     duplicate |-> FALSE, lookups |-> 0,
     removed |-> 0]

\* The locals of a handler end with it.
Return(q) ==
    [q EXCEPT !.pc = "done", !.destinations = <<>>, !.sources = <<>>,
              !.toProcess = <<>>, !.batchResults = <<>>, !.i = 0,
              !.calculationCount = 0, !.count = 0, !.elapsed = 0]

\* NextResponse.json(results): the rows read without an order (unordered, in
\* the order the database gave them), then the rows pushed (results).
Respond(q) == [Return(q) EXCEPT !.status = 200]

\* NextResponse.json({ error, timeout? }, { status }).
RespondError(q, status, timeout) ==
    [Return(q) EXCEPT !.status = status, !.timeout = timeout,
                      !.unordered = {}, !.results = <<>>]

\* The rows of a response.
ResponseRows(q) == q.unordered \cup Range(q.results)
ResponseCount(q) == Cardinality(q.unordered) + Len(q.results)

\* Date.now() - startTime, read at a budget check.
Now(q) == {t \in ClockValues : t >= q.elapsed}

(***************************************************************************)
(* The provider adapter.                                                   *)
(***************************************************************************)
\* What the route-matrix request of calculateDistance can end in: the route
\* of the pair (condition ROUTE_EXISTS), no route, or an axios error
\* (transport, authentication).
ProviderAnswers(s, d) ==
    IF <<s, d>> \in noRoute THEN {"ROUTE_NOT_FOUND", "error"}
    ELSE {"ROUTE_EXISTS", "error"}

\* calculateDistance: it throws without the API key; it returns the result
\* for a route, and null for no route and from its catch.
calculateDistance(answer) ==
    IF ~apiKey THEN "throw"
    ELSE IF answer = "ROUTE_EXISTS" THEN "result"
    ELSE "null"

\* calculateDistance: "throw" without the API key, else null (no route, or a
\* transport error, which the function catches) or a result.
CalculateDistanceOutcomes(s, d) ==
    {calculateDistance(answer) : answer \in ProviderAnswers(s, d)}

\* A cell of a batch result: null, or the DistanceResult of the pair the
\* provider computed.
Null == [ok |-> FALSE]

\* A slice of at most n elements of list starting at index from.
Slice(list, from, n) == SubSeq(list, from, Min(from + n - 1, Len(list)))

\* The first index of each request's slice: 1, 1 + n, 1 + 2n, ...
SliceStarts(list, n) == {k \in 1..Len(list) : (k - 1) % n = 0}

\* The chunks (one provider request each) of a batch, by the first indexes of
\* their origin and destination slices.
ChunkKeys(origins, dests) ==
    SliceStarts(origins, maxOriginsPerRequest)
        \X SliceStarts(dests, maxDestinationsPerRequest)

\* The distance-matrix answer to one request: a row per origin, an element per
\* destination, status OK where a route exists.
MatrixResponse(originBatch, destinationBatch) ==
    [k \in 1..Len(originBatch) |->
        [l \in 1..Len(destinationBatch) |->
            IF <<originBatch[k], destinationBatch[l]>> \in noRoute
            THEN [status |-> "ZERO_RESULTS"]
            ELSE [status |-> "OK",
                  distance |-> <<originBatch[k], destinationBatch[l]>>]]]

\* What one request can end in: an axios error, the matrix, or, from a
\* provider that refuses requests (quota, denied), an answer without rows.
ChunkKinds ==
    {"error", "matrix"} \cup (IF overQuota THEN {"refused"} ELSE {})

ChunkResponse(kind, originBatch, destinationBatch) ==
    CASE kind = "error" -> [error |-> TRUE, rows |-> <<>>]
      [] kind = "refused" -> [error |-> FALSE, rows |-> <<>>]
      [] OTHER -> [error |-> FALSE,
                   rows |-> MatrixResponse(originBatch, destinationBatch)]

ChunkResponses(originBatch, destinationBatch) ==
    {ChunkResponse(kind, originBatch, destinationBatch) : kind \in ChunkKinds}

\* The request did not bring the matrix.
ChunkFailed(response) == response.error \/ response.rows = <<>>

\* The answers to all requests of one batch.
BatchResponses(origins, dests) ==
    LET keys == ChunkKeys(origins, dests)
    IN {[key \in keys |->
            ChunkResponse(kind[key],
                          Slice(origins, key[1], maxOriginsPerRequest),
                          Slice(dests, key[2], maxDestinationsPerRequest))] :
        kind \in [keys -> ChunkKinds]}

\* for (k ...) { if (!batchResults[k]) batchResults[k] = []; push ... }:
\* row k of cells is appended to row k of batchResults.
PushCells(batchResults, cells) ==
    [k \in 1..(IF Len(batchResults) > Len(cells)
               THEN Len(batchResults) ELSE Len(cells)) |->
        (IF k <= Len(batchResults) THEN batchResults[k] ELSE <<>>)
        \o (IF k <= Len(cells) THEN cells[k] ELSE <<>>)]

\* The cells one request contributes: per element a result or null; after an
\* error, nulls for every origin and destination of the chunk.
ChunkCells(originBatch, destinationBatch, response) ==
    IF response.error
    THEN [k \in 1..Len(originBatch) |->
             [l \in 1..Len(destinationBatch) |-> Null]]
    ELSE [k \in 1..Len(response.rows) |->
             [l \in 1..Len(response.rows[k]) |->
                 IF response.rows[k][l].status = "OK"
                 THEN [ok |-> TRUE, distance |-> response.rows[k][l].distance]
                 ELSE Null]]

\* The inner loop of batchCalculateDistances: the destination slices of one
\* origin slice.
RECURSIVE DestinationLoop(_, _, _, _, _, _)
DestinationLoop(originBatch, i, dests, j, responses, batchResults) ==
    IF j > Len(dests) THEN batchResults
    ELSE LET destinationBatch == Slice(dests, j, maxDestinationsPerRequest)
         IN DestinationLoop(originBatch, i, dests,
                j + maxDestinationsPerRequest, responses,
                PushCells(batchResults,
                          ChunkCells(originBatch, destinationBatch,
                                     responses[<<i, j>>])))

\* The outer loop: results.push(...batchResults) per origin slice.
RECURSIVE OriginLoop(_, _, _, _, _)
OriginLoop(origins, i, dests, responses, results) ==
    IF i > Len(origins) THEN results
    ELSE LET originBatch == Slice(origins, i, maxOriginsPerRequest)
         IN OriginLoop(origins, i + maxOriginsPerRequest, dests, responses,
                results \o DestinationLoop(originBatch, i, dests, 1,
                                           responses, <<>>))

batchCalculateDistances(origins, dests, responses) ==
    OriginLoop(origins, 1, dests, responses, <<>>)

\* The pairs the requests of a batch cover.
BatchPairs(origins, dests) == Range(origins) \X Range(dests)

\* The queries of geocodeAddressWithFallbacks, in the order of the code; the
\* location a query finds is named by the query.
Strategies == <<"name, address, pincode", "name, pincode", "pincode",
                "name, address", "name">>

\* Every query is sent, whatever fields the destination has.
ApplicableAlways(k, pincode, address) == TRUE

\* The condition under which strategy k is tried: if (pincode && address),
\* if (pincode), if (pincode), if (address), and none for the last.
Applicable(k, pincode, address) ==
    CASE k = 1 -> pincode /\ address
      [] k = 2 -> pincode
      [] k = 3 -> pincode
      [] k = 4 -> address
      [] OTHER -> TRUE

\* The strategies from k on: geocodeAddress for each one that applies, up to
\* the first that finds a location (found[k]: what the geocoder answers to
\* query k).  queries are the queries sent so far.
RECURSIVE TryStrategies(_, _, _, _, _)
TryStrategies(k, pincode, address, found, queries) ==
    IF k > Len(Strategies)
    THEN [queries |-> queries, location |-> "null"]
    ELSE IF Applicable(k, pincode, address)
    THEN IF found[k]
         THEN [queries |-> Append(queries, Strategies[k]),
               location |-> Strategies[k]]
         ELSE TryStrategies(k + 1, pincode, address, found,
                            Append(queries, Strategies[k]))
    ELSE TryStrategies(k + 1, pincode, address, found, queries)

geocodeAddressWithFallbacks(pincode, address, found) ==
    TryStrategies(1, pincode, address, found, <<>>)

(***************************************************************************)
(* GET /api/distances?sourceId=s&destinationId=d: calculateSingleDistance. *)
(***************************************************************************)
StartSingle(r, s, d) ==
    /\ req[r].op = "idle"
    /\ req' = [req EXCEPT ![r] = [IdleReq EXCEPT !.op = "single",
                  !.pc = "s_cached", !.sourceId = s, !.destinationId = d]]
    /\ UNCHANGED <<stores, world>>

\* prisma.distance.findUnique: a cached row is returned as it is.
SingleCached(r) ==
    LET q == req[r] IN
    /\ q.pc = "s_cached"
    /\ req' = [req EXCEPT ![r] =
                 IF HasRow(q.sourceId, q.destinationId)
                 THEN Respond([q EXCEPT !.lookups = @ + 1, !.unordered =
                                 RowsFor({<<q.sourceId, q.destinationId>>})])
                 ELSE [q EXCEPT !.lookups = @ + 1, !.pc = "s_load"]]
    /\ UNCHANGED <<stores, world>>

\* prisma.source.findUnique and prisma.destination.findUnique.
SingleLoad(r) ==
    LET q == req[r] IN
    /\ q.pc = "s_load"
    /\ req' = [req EXCEPT ![r] =
                 IF \/ ~findUnique(q.sourceId, sources)
                    \/ ~findUnique(q.destinationId, destinations)
                 THEN RespondError(q, 404, FALSE)
                 ELSE IF q.destinationId \notin destCoords
                 THEN [q EXCEPT !.pc = "s_geocode"]
                 ELSE [q EXCEPT !.pc = "s_calc"]]
    /\ UNCHANGED <<stores, world>>

\* The destinations with coordinates when none is stored.
WithoutCoordinates(d) == destCoords

\* prisma.destination.update({ data: { latitude, longitude } }).
WithCoordinates(d) == destCoords \cup {d}

\* What geocodeAddressWithFallbacks can return, over the fields a destination
\* can have and the answers the geocoder can give.
GeocodeLocations ==
    {geocodeAddressWithFallbacks(pincode, address, found).location :
        pincode \in BOOLEAN, address \in BOOLEAN,
        found \in [1..Len(Strategies) -> BOOLEAN]}

\* geocodeAddressWithFallbacks for the fields of the destination, then
\* prisma.destination.update.
SingleGeocode(r) ==
    LET q == req[r]
        d == q.destinationId
        q1 == [q EXCEPT !.geocodeCalls = @ + 1]
    IN
    /\ q.pc = "s_geocode"
    /\ IF ~apiKey
       THEN \* the geocoder throws: GET answers 500
            /\ req' = [req EXCEPT ![r] = RespondError(q1, 500, FALSE)]
            /\ UNCHANGED destCoords
       ELSE \E location \in GeocodeLocations :
                  IF location = "null"
                  THEN \* no strategy found the place
                       /\ req' = [req EXCEPT ![r] = RespondError(
                                    [q1 EXCEPT !.location = "null"], 422, FALSE)]
                       /\ UNCHANGED destCoords
                  ELSE IF d \in destinations
                  THEN \* the location is stored
                       /\ destCoords' = WithCoordinates(d)
                       /\ req' = [req EXCEPT ![r] =
                                    [q1 EXCEPT !.location = "found",
                                               !.pc = "s_calc"]]
                  ELSE \* the update throws P2025: GET answers 500
                       /\ req' = [req EXCEPT ![r] = RespondError(
                                    [q1 EXCEPT !.location = "found"], 500, FALSE)]
                       /\ UNCHANGED destCoords
    /\ UNCHANGED <<sources, destinations, srcName, dstName, distances, world>>

\* calculateDistance, then prisma.distance.create.
SingleCalc(r) ==
    LET q == req[r]
        s == q.sourceId
        d == q.destinationId
        called == [q EXCEPT !.singleCalls = @ + 1, !.called = @ \cup {<<s, d>>}]
    IN
    /\ q.pc = "s_calc"
    /\ \E out \in CalculateDistanceOutcomes(s, d) :
          CASE out = "throw" ->
                 /\ req' = [req EXCEPT ![r] = RespondError(q, 500, FALSE)]
                 /\ UNCHANGED distances
            [] out = "null" ->
                 /\ req' = [req EXCEPT ![r] = RespondError(called, 500, FALSE)]
                 /\ UNCHANGED distances
            [] out = "result" ->
                 IF CreateSucceeds(s, d)
                 THEN /\ distances' = DistanceCreate(s, d, <<s, d>>)
                      /\ req' = [req EXCEPT ![r] =
                            Respond([called EXCEPT !.results =
                                        <<Row(s, d, <<s, d>>)>>])]
                 ELSE \* the create throws; GET's catch answers 500
                      /\ req' = [req EXCEPT ![r] =
                            RespondError([called EXCEPT !.conflict = @ \cup Conflict(s, d)],
                                         500, FALSE)]
                      /\ UNCHANGED distances
    /\ UNCHANGED <<sources, destinations, destCoords, srcName, dstName, world>>

(***************************************************************************)
(* GET /api/distances?sourceId=s: calculateDistancesFromSource.            *)
(***************************************************************************)
\* The list with nothing filtered out.
MissingAll(list, cached) == list

\* list.filter(x => !existingDistanceMap.has(x.id)).
MissingOf(list, cached) == SelectSeq(list, LAMBDA x : x \notin cached)

\* The next index from `from` on, within both lists, whose cell is a result
\* (the loop skips null cells without awaiting); 0 when the loop is over.
NextCell(cells, n, from) ==
    LET live == {j \in from..Min(n, Len(cells)) : cells[j].ok}
    IN IF live = {} THEN 0 ELSE CHOOSE j \in live : \A k \in live : j <= k

StartFromSource(r, s) ==
    /\ req[r].op = "idle"
    /\ req' = [req EXCEPT ![r] = [IdleReq EXCEPT !.op = "fromSource",
                  !.pc = "fs_source", !.sourceId = s]]
    /\ UNCHANGED <<stores, world>>

\* prisma.source.findUnique, then the early timeout check.
FromSourceSource(r) ==
    LET q == req[r] IN
    /\ q.pc = "fs_source"
    /\ \E now \in Now(q) :
          req' = [req EXCEPT ![r] =
                    IF ~findUnique(q.sourceId, sources)
                    THEN RespondError(q, 404, FALSE)
                    ELSE IF now > timeLimit
                    THEN RespondError([q EXCEPT !.budgetExit = TRUE], 408, TRUE)
                    ELSE [q EXCEPT !.elapsed = now, !.pc = "fs_dests"]]
    /\ UNCHANGED <<stores, world>>

\* prisma.destination.findMany: the destinations that have coordinates, by name.
FromSourceDestinations(r) ==
    LET q == req[r] IN
    /\ q.pc = "fs_dests"
    /\ \E ds \in OrderedByName(destCoords, dstName) :
          req' = [req EXCEPT ![r] = [q EXCEPT !.destinations = ds,
                                              !.pc = "fs_existing"]]
    /\ UNCHANGED <<stores, world>>

\* prisma.distance.findMany for the source and these destinations, the split
\* into existing and missing, and the timeout check before the batch.
FromSourceExisting(r) ==
    LET q == req[r]
        existing == RowsFor({q.sourceId} \X Range(q.destinations))
        cached == {x.destinationId : x \in existing}
        missing == MissingOf(q.destinations, cached)
        batchSize == Min(BATCH_SIZE_LIMIT, Len(missing))
    IN
    /\ q.pc = "fs_existing"
    /\ \E now \in Now(q) :
          LET q1 == [q EXCEPT !.existing = existing, !.missing = missing,
                              !.lookups = @ + 1,
                              !.toProcess = SubSeq(missing, 1, batchSize),
                              !.unordered = existing]
          IN req' = [req EXCEPT ![r] =
                IF Len(missing) = 0
                THEN Respond(q1)
                ELSE IF now > timeLimit - timeLimitBuffer
                THEN IF ResponseCount(q1) > 0
                     THEN Respond([q1 EXCEPT !.budgetExit = TRUE])
                     ELSE RespondError([q1 EXCEPT !.budgetExit = TRUE], 408, TRUE)
                ELSE [q1 EXCEPT !.elapsed = now, !.pc = "fs_batch"]]
    /\ UNCHANGED <<stores, world>>

\* Promise.race([batchCalculateDistances(origins, destinationLocations),
\* timeoutPromise]).  The batch throws without the API key; the timeout
\* rejects while the batch goes on in the background.
FromSourceBatch(r) ==
    LET q == req[r]
        origins == <<q.sourceId>>
    IN
    /\ q.pc = "fs_batch"
    /\ \/ /\ ~apiKey
          /\ req' = [req EXCEPT ![r] = [q EXCEPT !.pc = "fs_fallback", !.i = 1,
                                              !.fallbackCause = "threw"]]
       \/ /\ apiKey
          /\ \E responses \in BatchResponses(origins, q.toProcess),
                timedOut \in BOOLEAN :
                LET batchResults == batchCalculateDistances(origins, q.toProcess,
                                                            responses)
                    q1 == [q EXCEPT
                             !.batchRequests = @ + Cardinality(
                                  ChunkKeys(origins, q.toProcess)),
                             !.called = @ \cup BatchPairs(origins, q.toProcess),
                             !.batchFailed = \E key \in DOMAIN responses :
                                                ChunkFailed(responses[key])]
                    sourceResults == IF Len(batchResults) > 0
                                     THEN batchResults[1] ELSE <<>>
                    first == NextCell(sourceResults, Len(q.toProcess), 1)
                IN req' = [req EXCEPT ![r] =
                      IF timedOut
                      THEN \* the timer fires when its delay has passed
                           [q1 EXCEPT !.pc = "fs_fallback", !.i = 1,
                                      !.fallbackCause = "timeout",
                                      !.elapsed = @ + Min(BATCH_TIMEOUT,
                                                          timeLimit - @)]
                      ELSE IF first = 0
                      THEN Respond(q1)
                      ELSE [q1 EXCEPT !.batchResults = sourceResults,
                                      !.i = first, !.pc = "fs_persist"]]
    /\ UNCHANGED <<stores, world>>

\* One round of the loop over the batch results: prisma.distance.create for the
\* cell at i.  A create that throws is caught by the catch of the batch.
FromSourcePersist(r) ==
    LET q == req[r]
        s == q.sourceId
        d == q.toProcess[q.i]
        v == q.batchResults[q.i].distance
        next == NextCell(q.batchResults, Len(q.toProcess), q.i + 1)
    IN
    /\ q.pc = "fs_persist"
    /\ IF CreateSucceeds(s, d)
       THEN /\ distances' = DistanceCreate(s, d, v)
            /\ LET q1 == [q EXCEPT !.results = Append(@, Row(s, d, v)),
                                   !.i = next]
               IN req' = [req EXCEPT ![r] =
                            IF next = 0 THEN Respond(q1)
                            ELSE q1]
       ELSE /\ req' = [req EXCEPT ![r] =
                         [q EXCEPT !.pc = "fs_fallback", !.i = 1,
                                   !.fallbackCause = "create",
                                   !.conflict = @ \cup Conflict(s, d)]]
            /\ UNCHANGED distances
    /\ UNCHANGED <<sources, destinations, destCoords, srcName, dstName, world>>

\* await new Promise(resolve => setTimeout(resolve, 200)) at the end of a
\* round of the fallback loop that did not throw.
Delayed(q) == [q EXCEPT !.elapsed = @ + fallbackDelay]

\* One round of the fallback loop: calculateDistance for missing[i], then
\* prisma.distance.create; whatever is thrown is caught and logged.
FromSourceFallback(r) ==
    LET q == req[r]
        s == q.sourceId
        d == q.missing[q.i]
        fallbackLimit == Min(FALLBACK_LIMIT, Len(q.missing))
        called == [q EXCEPT !.singleCalls = @ + 1, !.called = @ \cup {<<s, d>>}]
        Continue(q1) == IF q.i + 1 > fallbackLimit
                        THEN Respond(q1)
                        ELSE [q1 EXCEPT !.i = q.i + 1]
    IN
    /\ q.pc = "fs_fallback"
    /\ \E out \in CalculateDistanceOutcomes(s, d) :
          CASE out = "throw" ->
                 /\ req' = [req EXCEPT ![r] = Continue(q)]
                 /\ UNCHANGED distances
            [] out = "null" ->
                 /\ req' = [req EXCEPT ![r] = Continue(Delayed(called))]
                 /\ UNCHANGED distances
            [] out = "result" ->
                 IF CreateSucceeds(s, d)
                 THEN /\ distances' = DistanceCreate(s, d, <<s, d>>)
                      /\ req' = [req EXCEPT ![r] = Continue(Delayed(
                            [called EXCEPT !.results =
                                Append(@, Row(s, d, <<s, d>>))]))]
                 ELSE /\ req' = [req EXCEPT ![r] = Continue(
                            [called EXCEPT !.conflict = @ \cup Conflict(s, d)])]
                      /\ UNCHANGED distances
    /\ UNCHANGED <<sources, destinations, destCoords, srcName, dstName, world>>

(***************************************************************************)
(* GET /api/distances?destinationId=d: calculateDistancesToDestination.    *)
(***************************************************************************)
StartToDestination(r, d) ==
    /\ req[r].op = "idle"
    /\ req' = [req EXCEPT ![r] = [IdleReq EXCEPT !.op = "toDestination",
                  !.pc = "td_dest", !.destinationId = d]]
    /\ UNCHANGED <<stores, world>>

\* prisma.destination.findUnique: 404 when absent or without coordinates.
ToDestinationDestination(r) ==
    LET q == req[r] IN
    /\ q.pc = "td_dest"
    /\ req' = [req EXCEPT ![r] =
                 IF ~findUnique(q.destinationId, destinations)
                    \/ q.destinationId \notin destCoords
                 THEN RespondError(q, 404, FALSE)
                 ELSE [q EXCEPT !.pc = "td_sources"]]
    /\ UNCHANGED <<stores, world>>

\* prisma.source.findMany, by name.
ToDestinationSources(r) ==
    LET q == req[r] IN
    /\ q.pc = "td_sources"
    /\ \E ss \in OrderedByName(sources, srcName) :
          req' = [req EXCEPT ![r] = [q EXCEPT !.sources = ss,
                                              !.pc = "td_existing"]]
    /\ UNCHANGED <<stores, world>>

\* prisma.distance.findMany for the destination and these sources, and the
\* split into existing and missing.
ToDestinationExisting(r) ==
    LET q == req[r]
        existing == RowsFor(Range(q.sources) \X {q.destinationId})
        cached == {x.sourceId : x \in existing}
        missing == MissingOf(q.sources, cached)
        batchSize == Min(BATCH_SIZE_LIMIT, Len(missing))
    IN
    /\ q.pc = "td_existing"
    /\ LET q1 == [q EXCEPT !.existing = existing, !.missing = missing,
                              !.lookups = @ + 1,
                           !.toProcess = SubSeq(missing, 1, batchSize),
                           !.unordered = existing]
       IN req' = [req EXCEPT ![r] =
             IF Len(missing) = 0 THEN Respond(q1)
             ELSE [q1 EXCEPT !.pc = "td_batch"]]
    /\ UNCHANGED <<stores, world>>

\* Promise.race([batchCalculateDistances(sourceLocations, destinations),
\* timeoutPromise]); cell i is batchResults[i][0].
ToDestinationBatch(r) ==
    LET q == req[r]
        dests == <<q.destinationId>>
    IN
    /\ q.pc = "td_batch"
    /\ \/ /\ ~apiKey
          /\ req' = [req EXCEPT ![r] = [q EXCEPT !.pc = "td_fallback", !.i = 1,
                                              !.fallbackCause = "threw"]]
       \/ /\ apiKey
          /\ \E responses \in BatchResponses(q.toProcess, dests),
                timedOut \in BOOLEAN :
                LET batchResults == batchCalculateDistances(q.toProcess, dests,
                                                            responses)
                    q1 == [q EXCEPT
                             !.batchRequests = @ + Cardinality(
                                  ChunkKeys(q.toProcess, dests)),
                             !.called = @ \cup BatchPairs(q.toProcess, dests),
                             !.batchFailed = \E key \in DOMAIN responses :
                                                ChunkFailed(responses[key])]
                    cells == [k \in 1..Len(batchResults) |->
                                 IF Len(batchResults[k]) > 0
                                 THEN batchResults[k][1] ELSE Null]
                    first == NextCell(cells, Len(q.toProcess), 1)
                IN req' = [req EXCEPT ![r] =
                      IF timedOut
                      THEN \* the timer fires when its delay has passed
                           [q1 EXCEPT !.pc = "td_fallback", !.i = 1,
                                      !.fallbackCause = "timeout",
                                      !.elapsed = @ + BATCH_TIMEOUT]
                      ELSE IF first = 0
                      THEN Respond(q1)
                      ELSE [q1 EXCEPT !.batchResults = cells,
                                      !.i = first, !.pc = "td_persist"]]
    /\ UNCHANGED <<stores, world>>

\* One round of the loop over the batch results.
ToDestinationPersist(r) ==
    LET q == req[r]
        s == q.toProcess[q.i]
        d == q.destinationId
        v == q.batchResults[q.i].distance
        next == NextCell(q.batchResults, Len(q.toProcess), q.i + 1)
    IN
    /\ q.pc = "td_persist"
    /\ IF CreateSucceeds(s, d)
       THEN /\ distances' = DistanceCreate(s, d, v)
            /\ LET q1 == [q EXCEPT !.results = Append(@, Row(s, d, v)),
                                   !.i = next]
               IN req' = [req EXCEPT ![r] =
                            IF next = 0 THEN Respond(q1)
                            ELSE q1]
       ELSE /\ req' = [req EXCEPT ![r] =
                         [q EXCEPT !.pc = "td_fallback", !.i = 1,
                                   !.fallbackCause = "create",
                                   !.conflict = @ \cup Conflict(s, d)]]
            /\ UNCHANGED distances
    /\ UNCHANGED <<sources, destinations, destCoords, srcName, dstName, world>>

\* One round of the fallback loop.
ToDestinationFallback(r) ==
    LET q == req[r]
        s == q.missing[q.i]
        d == q.destinationId
        fallbackLimit == Min(FALLBACK_LIMIT, Len(q.missing))
        called == [q EXCEPT !.singleCalls = @ + 1, !.called = @ \cup {<<s, d>>}]
        Continue(q1) == IF q.i + 1 > fallbackLimit
                        THEN Respond(q1)
                        ELSE [q1 EXCEPT !.i = q.i + 1]
    IN
    /\ q.pc = "td_fallback"
    /\ \E out \in CalculateDistanceOutcomes(s, d) :
          CASE out = "throw" ->
                 /\ req' = [req EXCEPT ![r] = Continue(q)]
                 /\ UNCHANGED distances
            [] out = "null" ->
                 /\ req' = [req EXCEPT ![r] = Continue(Delayed(called))]
                 /\ UNCHANGED distances
            [] out = "result" ->
                 IF CreateSucceeds(s, d)
                 THEN /\ distances' = DistanceCreate(s, d, <<s, d>>)
                      /\ req' = [req EXCEPT ![r] = Continue(Delayed(
                            [called EXCEPT !.results =
                                Append(@, Row(s, d, <<s, d>>))]))]
                 ELSE /\ req' = [req EXCEPT ![r] = Continue(
                            [called EXCEPT !.conflict = @ \cup Conflict(s, d)])]
                      /\ UNCHANGED distances
    /\ UNCHANGED <<sources, destinations, destCoords, srcName, dstName, world>>

(***************************************************************************)
(* GET /api/distances?calculate=true: calculateAllDistances.               *)
(***************************************************************************)
\* a sorts before b: by source name, then by destination name.
RowLess(a, b) ==
    IF srcName[a.sourceId] = srcName[b.sourceId]
    THEN LocaleLess(dstName[a.destinationId], dstName[b.destinationId])
    ELSE LocaleLess(srcName[a.sourceId], srcName[b.sourceId])

\* results.sort(...): a stable sort.
RECURSIVE Insert(_, _)
Insert(sorted, x) ==
    IF sorted = <<>> THEN <<x>>
    ELSE IF RowLess(x, sorted[Len(sorted)])
         THEN Append(Insert(SubSeq(sorted, 1, Len(sorted) - 1), x),
                     sorted[Len(sorted)])
         ELSE Append(sorted, x)

RECURSIVE SortRows(_)
SortRows(rows) ==
    IF rows = <<>> THEN <<>>
    ELSE Insert(SortRows(SubSeq(rows, 1, Len(rows) - 1)), rows[Len(rows)])

\* The pair at position p of the nested loops (sources outside).
PairAt(q, p) ==
    <<q.sources[((p - 1) \div Len(q.destinations)) + 1],
      q.destinations[((p - 1) % Len(q.destinations)) + 1]>>

\* The row existingDistanceMap holds under the key of a pair.
ExistingRow(q, pair) ==
    CHOOSE x \in q.existing : <<x.sourceId, x.destinationId>> = pair

\* The nested loops from position p up to the next await: existing rows are
\* pushed; the loops end at the end of the lists or at MAX_CALCULATIONS.
RECURSIVE AllAdvance(_, _)
AllAdvance(q, p) ==
    IF \/ p > Len(q.sources) * Len(q.destinations)
       \/ q.calculationCount >= MAX_CALCULATIONS
    THEN Respond([q EXCEPT !.results = SortRows(@)])
    ELSE IF \E x \in q.existing : <<x.sourceId, x.destinationId>> = PairAt(q, p)
    THEN AllAdvance([q EXCEPT !.results =
                        Append(@, ExistingRow(q, PairAt(q, p)))], p + 1)
    ELSE [q EXCEPT !.i = p, !.pc = "a_loop"]

StartAll(r) ==
    /\ req[r].op = "idle"
    /\ req' = [req EXCEPT ![r] = [IdleReq EXCEPT !.op = "all",
                                                !.calculate = TRUE,
                                                !.pc = "a_sources"]]
    /\ UNCHANGED <<stores, world>>

\* prisma.source.findMany, by name.
AllSources(r) ==
    LET q == req[r] IN
    /\ q.pc = "a_sources"
    /\ \E ss \in OrderedByName(sources, srcName) :
          req' = [req EXCEPT ![r] = [q EXCEPT !.sources = ss, !.pc = "a_dests"]]
    /\ UNCHANGED <<stores, world>>

\* prisma.destination.findMany: the destinations with coordinates, by name.
AllDestinations(r) ==
    LET q == req[r] IN
    /\ q.pc = "a_dests"
    /\ \E ds \in OrderedByName(destCoords, dstName) :
          req' = [req EXCEPT ![r] = [q EXCEPT !.destinations = ds,
                                              !.pc = "a_existing"]]
    /\ UNCHANGED <<stores, world>>

\* prisma.distance.findMany of the whole table, then the loops up to the
\* first pair to calculate.
AllExisting(r) ==
    LET q == req[r] IN
    /\ q.pc = "a_existing"
    /\ req' = [req EXCEPT ![r] =
                 AllAdvance([q EXCEPT !.existing = DistanceRows,
                                      !.lookups = @ + 1], 1)]
    /\ UNCHANGED <<stores, world>>

\* calculateDistance and prisma.distance.create for the pair at i, then the
\* loops up to the next pair to calculate.  What is thrown reaches GET's catch.
AllLoop(r) ==
    LET q == req[r]
        s == PairAt(q, q.i)[1]
        d == PairAt(q, q.i)[2]
        called == [q EXCEPT !.singleCalls = @ + 1, !.called = @ \cup {<<s, d>>}]
    IN
    /\ q.pc = "a_loop"
    /\ \E out \in CalculateDistanceOutcomes(s, d) :
          CASE out = "throw" ->
                 /\ req' = [req EXCEPT ![r] = RespondError(q, 500, FALSE)]
                 /\ UNCHANGED distances
            [] out = "null" ->
                 /\ req' = [req EXCEPT ![r] = AllAdvance(called, q.i + 1)]
                 /\ UNCHANGED distances
            [] out = "result" ->
                 IF CreateSucceeds(s, d)
                 THEN /\ distances' = DistanceCreate(s, d, <<s, d>>)
                      /\ req' = [req EXCEPT ![r] = AllAdvance(
                            [called EXCEPT
                               !.calculationCount = @ + 1,
                               !.results = Append(@, Row(s, d, <<s, d>>))],
                            q.i + 1)]
                 ELSE /\ req' = [req EXCEPT ![r] =
                            RespondError([called EXCEPT !.conflict = @ \cup Conflict(s, d)],
                                         500, FALSE)]
                      /\ UNCHANGED distances
    /\ UNCHANGED <<sources, destinations, destCoords, srcName, dstName, world>>

(***************************************************************************)
(* DELETE /api/sources/[id] and DELETE /api/destinations/[id].             *)
(***************************************************************************)
StartDeleteSource(r, s) ==
    /\ req[r].op = "idle"
    /\ req' = [req EXCEPT ![r] = [IdleReq EXCEPT !.op = "deleteSource",
                  !.pc = "ds_find", !.sourceId = s]]
    /\ UNCHANGED <<stores, world>>

\* prisma.source.findUnique.
DeleteSourceFind(r) ==
    LET q == req[r] IN
    /\ q.pc = "ds_find"
    /\ req' = [req EXCEPT ![r] =
                 IF q.sourceId \notin sources
                 THEN RespondError(q, 404, FALSE)
                 ELSE [q EXCEPT !.pc = "ds_count"]]
    /\ UNCHANGED <<stores, world>>

\* prisma.distance.count({ where: { sourceId } }).
DeleteSourceCount(r) ==
    LET q == req[r] IN
    /\ q.pc = "ds_count"
    /\ req' = [req EXCEPT ![r] =
                 [q EXCEPT !.pc = "ds_delete",
                           !.count = RowCount({x \in DistanceRows :
                                                 x.sourceId = q.sourceId})]]
    /\ UNCHANGED <<stores, world>>

\* prisma.source.delete: the rows of the source go with it (P2025, answered
\* 404, when the source is gone already).
DeleteSourceDelete(r) ==
    LET q == req[r] IN
    /\ q.pc = "ds_delete"
    /\ IF q.sourceId \in sources
       THEN /\ sources' = sources \ {q.sourceId}
            /\ distances' = CascadeSource(q.sourceId)
            /\ req' = [req EXCEPT ![r] =
                  [Respond(q) EXCEPT
                     !.deletedDistances = q.count,
                     !.removed = RowCount({x \in DistanceRows :
                                             x.sourceId = q.sourceId})]]
       ELSE /\ req' = [req EXCEPT ![r] = RespondError(q, 404, FALSE)]
            /\ UNCHANGED <<sources, distances>>
    /\ UNCHANGED <<destinations, destCoords, srcName, dstName, world>>

StartDeleteDestination(r, d) ==
    /\ req[r].op = "idle"
    /\ req' = [req EXCEPT ![r] = [IdleReq EXCEPT !.op = "deleteDestination",
                  !.pc = "dd_find", !.destinationId = d]]
    /\ UNCHANGED <<stores, world>>

\* prisma.destination.findUnique.
DeleteDestinationFind(r) ==
    LET q == req[r] IN
    /\ q.pc = "dd_find"
    /\ req' = [req EXCEPT ![r] =
                 IF q.destinationId \notin destinations
                 THEN RespondError(q, 404, FALSE)
                 ELSE [q EXCEPT !.pc = "dd_count"]]
    /\ UNCHANGED <<stores, world>>

\* prisma.distance.count({ where: { destinationId } }).
DeleteDestinationCount(r) ==
    LET q == req[r] IN
    /\ q.pc = "dd_count"
    /\ req' = [req EXCEPT ![r] =
                 [q EXCEPT !.pc = "dd_delete",
                           !.count = RowCount({x \in DistanceRows :
                                         x.destinationId = q.destinationId})]]
    /\ UNCHANGED <<stores, world>>

\* prisma.destination.delete.
DeleteDestinationDelete(r) ==
    LET q == req[r] IN
    /\ q.pc = "dd_delete"
    /\ IF q.destinationId \in destinations
       THEN /\ destinations' = destinations \ {q.destinationId}
            /\ destCoords' = destCoords \ {q.destinationId}
            /\ distances' = CascadeDestination(q.destinationId)
            /\ req' = [req EXCEPT ![r] =
                  [Respond(q) EXCEPT
                     !.deletedDistances = q.count,
                     !.removed = RowCount({x \in DistanceRows :
                                     x.destinationId = q.destinationId})]]
       ELSE /\ req' = [req EXCEPT ![r] = RespondError(q, 404, FALSE)]
            /\ UNCHANGED <<destinations, destCoords, distances>>
    /\ UNCHANGED <<sources, srcName, dstName, world>>

(***************************************************************************)
(* GET /api/distances (no id, no calculate): getExistingDistances.         *)
(***************************************************************************)
\* name contains filter as it is written.
ContainsSensitive(name, filter) ==
    \E k \in 0..(Len(name) - Len(filter)) :
       SubSeq(name, k + 1, k + Len(filter)) = filter

\* { name: { contains: filter, mode: 'insensitive' } }.
ContainsInsensitive(name, filter) ==
    \E k \in 0..(Len(name) - Len(filter)) :
       SubSeq(Lower(name), k + 1, k + Len(filter)) = Lower(filter)

\* The rows of whereClause: a filter is applied when it is not empty.
Where(q) ==
    {x \in DistanceRows :
        /\ q.sourceFilter # <<>> =>
              ContainsInsensitive(srcName[x.sourceId], q.sourceFilter)
        /\ q.destinationFilter # <<>> =>
              ContainsInsensitive(dstName[x.destinationId], q.destinationFilter)}

\* orderBy: [{ source: { name: 'asc' } }, { destination: { name: 'asc' } }].
OrderByLess(a, b) ==
    IF srcName[a.sourceId] # srcName[b.sourceId]
    THEN NameLess(srcName[a.sourceId], srcName[b.sourceId])
    ELSE NameLess(dstName[a.destinationId], dstName[b.destinationId])

\* The orders in which the database can return the rows S under that orderBy:
\* rows that tie on both names come in an order it chooses, query by query.
RECURSIVE Arrangements(_)
Arrangements(S) ==
    IF S = {} THEN {<<>>}
    ELSE UNION {{<<x>> \o rest : rest \in Arrangements(S \ {x})} :
                x \in {y \in S : \A z \in S : ~OrderByLess(z, y)}}

\* Math.ceil(a / b).
CeilDiv(a, b) == (a + b - 1) \div b

StartList(r, page, limit, sourceFilter, destinationFilter) ==
    /\ req[r].op = "idle"
    /\ req' = [req EXCEPT ![r] = [IdleReq EXCEPT !.op = "list",
                  !.pc = "l_count", !.page = page, !.limit = limit,
                  !.sourceFilter = sourceFilter,
                  !.destinationFilter = destinationFilter]]
    /\ UNCHANGED <<stores, world>>

\* prisma.distance.count({ where: whereClause }).
ListCount(r) ==
    LET q == req[r] IN
    /\ q.pc = "l_count"
    /\ req' = [req EXCEPT ![r] = [q EXCEPT !.totalCount = RowCount(Where(q)),
                                          !.pc = "l_find"]]
    /\ UNCHANGED <<stores, world>>

\* prisma.distance.findMany({ where, skip, take: limit, orderBy }) and the
\* response with its pagination.
ListFindMany(r) ==
    LET q == req[r]
        skip == (q.page - 1) * q.limit
    IN
    /\ q.pc = "l_find"
    /\ \E all \in Arrangements(Where(q)) :
          LET found == SubSeq(all, skip + 1, Min(skip + q.limit, Len(all)))
          IN req' = [req EXCEPT ![r] = Respond([q EXCEPT
                       !.results = found,
                       !.pagination =
                           [page |-> q.page, limit |-> q.limit,
                            total |-> q.totalCount,
                            pages |-> CeilDiv(q.totalCount, q.limit),
                            hasMore |-> skip + Len(found) < q.totalCount]])]
    /\ UNCHANGED <<stores, world>>

(***************************************************************************)
(* The browser: loadAllDistances, page after page of the list.             *)
(***************************************************************************)
IdleClient == [pc |-> "idle", page |-> 1, hasMore |-> TRUE, allDistances |-> <<>>]

\* while (hasMore) fetch(`/api/distances?page=${page}&limit=LOAD_LIMIT`).
LoaderFetch(r) ==
    /\ client.pc \in {"idle", "loop"}
    /\ client.hasMore
    /\ req[r].op = "idle"
    /\ req' = [req EXCEPT ![r] = [IdleReq EXCEPT !.op = "list",
                  !.pc = "l_count", !.page = client.page, !.limit = LOAD_LIMIT]]
    /\ client' = [client EXCEPT !.pc = "await"]
    /\ UNCHANGED <<stores, noRoute, apiKey, overQuota, dstPincode, pincodeUnique,
                 prev, adapter>>

\* The response: its rows are appended, hasMore and page follow; a response
\* that is not ok ends the loop.
LoaderReceive(r) ==
    LET q == req[r] IN
    /\ client.pc = "await"
    /\ q.pc = "done"
    /\ client' =
          IF q.status = 200
          THEN [client EXCEPT
                  !.allDistances = @ \o q.results,
                  !.hasMore = q.pagination.hasMore,
                  !.page = @ + 1,
                  !.pc = IF q.pagination.hasMore THEN "loop" ELSE "loaded"]
          ELSE [client EXCEPT !.hasMore = FALSE, !.pc = "loaded"]
    /\ req' = [req EXCEPT ![r] = IdleReq]
    /\ UNCHANGED <<stores, noRoute, apiKey, overQuota, dstPincode, pincodeUnique,
                 prev, adapter>>

(***************************************************************************)
(* POST /api/destinations and PUT /api/destinations/[id].  A pincode is a  *)
(* string, empty when the destination has none; the address of the request *)
(* only feeds the geocoder.                                                *)
(***************************************************************************)
RECURSIVE TrimStart(_)
TrimStart(s) ==
    IF s # <<>> /\ Head(s) = " " THEN TrimStart(Tail(s)) ELSE s

RECURSIVE TrimEnd(_)
TrimEnd(s) ==
    IF s # <<>> /\ s[Len(s)] = " "
    THEN TrimEnd(SubSeq(s, 1, Len(s) - 1))
    ELSE s

\* String.prototype.trim.
trim(s) == TrimEnd(TrimStart(s))

\* prisma.destination.findFirst({ where: { pincode, id: { not: id } } })
\* finds a row (id 0: no destination is left out).
findFirst(pincode, id) ==
    \E d \in destinations \ {id} : dstPincode[d] = pincode

\* The write is refused with P2002: the database has the unique index and
\* another row holds the pincode.
UniqueViolation(pincode, id) ==
    /\ pincodeUnique
    /\ pincode # <<>>
    /\ \E d \in destinations \ {id} : dstPincode[d] = pincode

\* The id the database gives to the next destination.
NextDestinationId ==
    CHOOSE d \in DestinationIds \ destinations :
       \A e \in DestinationIds \ destinations : d <= e

\* The destinations there are and those being created.
DestinationsInSight ==
    Cardinality(destinations)
        + Cardinality({o \in Requests : req[o].op = "createDestination"})

StartPost(r, name, pincode, coordinates) ==
    /\ req[r].op = "idle"
    /\ DestinationsInSight < MaxConcurrentDestination
    /\ req' = [req EXCEPT ![r] = [IdleReq EXCEPT !.op = "createDestination",
                  !.pc = IF pincode # <<>> THEN "p_find" ELSE "p_create",
                  !.name = name, !.pincode = pincode,
                  !.coordinates = coordinates]]
    /\ UNCHANGED <<stores, world>>

\* if (pincode) prisma.destination.findFirst({ where: { pincode } }): 409
\* when a destination holds the pincode.
PostFind(r) ==
    LET q == req[r] IN
    /\ q.pc = "p_find"
    /\ req' = [req EXCEPT ![r] =
                 IF findFirst(q.pincode, 0)
                 THEN RespondError([q EXCEPT !.duplicate = TRUE], 409, FALSE)
                 ELSE [q EXCEPT !.pc = "p_create"]]
    /\ UNCHANGED <<stores, world>>

\* geocodeAddressWithFallbacks when the request has no coordinates, then
\* prisma.destination.create; P2002 is answered 409, what the geocoder throws
\* 500.
PostCreate(r) ==
    LET q == req[r]
        id == NextDestinationId
    IN
    /\ q.pc = "p_create"
    /\ IF ~q.coordinates /\ ~apiKey
       THEN /\ req' = [req EXCEPT ![r] = RespondError(q, 500, FALSE)]
            /\ UNCHANGED <<destinations, destCoords, dstName, dstPincode>>
       ELSE IF UniqueViolation(q.pincode, 0)
       THEN /\ req' = [req EXCEPT ![r] =
                  RespondError([q EXCEPT !.duplicate = TRUE], 409, FALSE)]
            /\ UNCHANGED <<destinations, destCoords, dstName, dstPincode>>
       ELSE \E located \in (IF q.coordinates THEN {TRUE} ELSE BOOLEAN) :
               /\ destinations' = destinations \cup {id}
               /\ destCoords' = IF located THEN destCoords \cup {id}
                                ELSE destCoords
               /\ dstName' = [dstName EXCEPT ![id] = q.name]
               /\ dstPincode' = [dstPincode EXCEPT ![id] = q.pincode]
               /\ req' = [req EXCEPT ![r] =
                     [Respond([q EXCEPT !.destinationId = id])
                         EXCEPT !.status = 201]]
    /\ UNCHANGED <<sources, srcName, distances, noRoute, apiKey, overQuota,
                   pincodeUnique, prev, client, adapter>>

StartPut(r, id, name, pincode, coordinates) ==
    /\ req[r].op = "idle"
    /\ req' = [req EXCEPT ![r] = [IdleReq EXCEPT !.op = "updateDestination",
                  !.pc = IF pincode # <<>> THEN "u_find" ELSE "u_update",
                  !.destinationId = id, !.name = name, !.pincode = pincode,
                  !.coordinates = coordinates]]
    /\ UNCHANGED <<stores, world>>

\* if (pincode) prisma.destination.findFirst({ where: { pincode, id: { not:
\* destinationId } } }): 409 when another destination holds the pincode.
PutFind(r) ==
    LET q == req[r] IN
    /\ q.pc = "u_find"
    /\ req' = [req EXCEPT ![r] =
                 IF findFirst(q.pincode, q.destinationId)
                 THEN RespondError([q EXCEPT !.duplicate = TRUE], 409, FALSE)
                 ELSE [q EXCEPT !.pc = "u_update"]]
    /\ UNCHANGED <<stores, world>>

\* prisma.destination.update with name.trim(), pincode?.trim() || null and
\* latitude || null: P2025 is answered 404, anything else thrown 500.
PutUpdate(r) ==
    LET q == req[r]
        id == q.destinationId
    IN
    /\ q.pc = "u_update"
    /\ IF id \notin destinations
       THEN /\ req' = [req EXCEPT ![r] = RespondError(q, 404, FALSE)]
            /\ UNCHANGED <<destCoords, dstName, dstPincode>>
       ELSE IF UniqueViolation(trim(q.pincode), id)
       THEN /\ req' = [req EXCEPT ![r] =
                  RespondError([q EXCEPT !.duplicate = TRUE], 500, FALSE)]
            /\ UNCHANGED <<destCoords, dstName, dstPincode>>
       ELSE /\ destCoords' = IF q.coordinates THEN destCoords \cup {id}
                             ELSE destCoords \ {id}
            /\ dstName' = [dstName EXCEPT ![id] = trim(q.name)]
            /\ dstPincode' = [dstPincode EXCEPT ![id] = trim(q.pincode)]
            /\ req' = [req EXCEPT ![r] = Respond(q)]
    /\ UNCHANGED <<sources, destinations, srcName, distances, noRoute, apiKey,
                   overQuota, pincodeUnique, prev, client, adapter>>

(***************************************************************************)
(* POST /api/calculate?destinationId=d and POST /api/calculate?sourceId=s: *)
(* calculateDistancesToDestination and calculateDistancesFromSource of the *)
(* calculate route.  What they throw reaches POST's catch (500).           *)
(***************************************************************************)
\* Date.now() - startTime: no earlier than the last instant the run has
\* seen; the instants are one below the three thresholds of the route, the
\* one that starts no calculation, and one above the one that stops the loops.
CalculateNow(q) ==
    {q.elapsed} \cup
    {t \in {0, (timeoutMs * 7) \div 10, (timeoutMs * 8) \div 10 + 1} :
        t >= q.elapsed}

\* if (calculationCount % 10 === 0) await new Promise(resolve =>
\* setTimeout(resolve, 1000)).
RateLimited(q) ==
    IF q.calculationCount % rateLimitEvery = 0
    THEN [q EXCEPT !.elapsed = @ + rateLimitDelay]
    ELSE q

StartCalculateToDestination(r, d) ==
    /\ req[r].op = "idle"
    /\ req' = [req EXCEPT ![r] = [IdleReq EXCEPT !.op = "calculateToDestination",
                  !.pc = "ct_dest", !.destinationId = d]]
    /\ UNCHANGED <<stores, world>>

\* prisma.destination.findUnique: 404 when absent or without coordinates.
CalculateToDestinationDestination(r) ==
    LET q == req[r] IN
    /\ q.pc = "ct_dest"
    /\ req' = [req EXCEPT ![r] =
                 IF ~findUnique(q.destinationId, destinations)
                    \/ q.destinationId \notin destCoords
                 THEN RespondError(q, 404, FALSE)
                 ELSE [q EXCEPT !.pc = "ct_sources"]]
    /\ UNCHANGED <<stores, world>>

\* prisma.source.findMany, by name.
CalculateToDestinationSources(r) ==
    LET q == req[r] IN
    /\ q.pc = "ct_sources"
    /\ \E ss \in OrderedByName(sources, srcName) :
          req' = [req EXCEPT ![r] =
                    IF Len(ss) = 0 THEN Respond(q)
                    ELSE [q EXCEPT !.sources = ss, !.i = 1, !.pc = "ct_lookup"]]
    /\ UNCHANGED <<stores, world>>

\* The end of one round of the loop over the sources.
CalculateToDestinationNext(q, q1) ==
    IF q.i + 1 > Len(q.sources) THEN Respond(q1)
    ELSE [q1 EXCEPT !.i = q.i + 1, !.pc = "ct_lookup"]

\* prisma.distance.findUnique for the pair of sources[i]: a row found is
\* pushed.
CalculateToDestinationLookup(r) ==
    LET q == req[r]
        s == q.sources[q.i]
        found == RowsFor({<<s, q.destinationId>>})
        looked == [q EXCEPT !.lookups = @ + 1, !.existing = @ \cup found]
    IN
    /\ q.pc = "ct_lookup"
    /\ req' = [req EXCEPT ![r] =
                 IF found # {}
                 THEN CalculateToDestinationNext(q,
                         [looked EXCEPT !.results =
                             Append(@, CHOOSE x \in found : TRUE)])
                 ELSE [looked EXCEPT !.pc = "ct_create"]]
    /\ UNCHANGED <<stores, world>>

\* calculateDistance and prisma.distance.create for the pair of sources[i],
\* then the delay.
CalculateToDestinationCreate(r) ==
    LET q == req[r]
        s == q.sources[q.i]
        d == q.destinationId
        called == [q EXCEPT !.singleCalls = @ + 1, !.called = @ \cup {<<s, d>>}]
    IN
    /\ q.pc = "ct_create"
    /\ \E out \in CalculateDistanceOutcomes(s, d) :
          CASE out = "throw" ->
                 /\ req' = [req EXCEPT ![r] = RespondError(q, 500, FALSE)]
                 /\ UNCHANGED distances
            [] out = "null" ->
                 /\ req' = [req EXCEPT ![r] =
                       CalculateToDestinationNext(q, RateLimited(called))]
                 /\ UNCHANGED distances
            [] out = "result" ->
                 IF CreateSucceeds(s, d)
                 THEN /\ distances' = DistanceCreate(s, d, <<s, d>>)
                      /\ req' = [req EXCEPT ![r] =
                            CalculateToDestinationNext(q, RateLimited(
                               [called EXCEPT
                                  !.results = Append(@, Row(s, d, <<s, d>>)),
                                  !.calculationCount = @ + 1]))]
                 ELSE /\ req' = [req EXCEPT ![r] = RespondError(
                            [called EXCEPT !.conflict = @ \cup Conflict(s, d)],
                            500, FALSE)]
                      /\ UNCHANGED distances
    /\ UNCHANGED <<sources, destinations, destCoords, srcName, dstName, world>>

StartCalculateFromSource(r, s) ==
    /\ req[r].op = "idle"
    /\ req' = [req EXCEPT ![r] = [IdleReq EXCEPT !.op = "calculateFromSource",
                  !.pc = "cf_source", !.sourceId = s]]
    /\ UNCHANGED <<stores, world>>

\* prisma.source.findUnique: 404 when absent.
CalculateFromSourceSource(r) ==
    LET q == req[r] IN
    /\ q.pc = "cf_source"
    /\ req' = [req EXCEPT ![r] =
                 IF ~findUnique(q.sourceId, sources)
                 THEN RespondError(q, 404, FALSE)
                 ELSE [q EXCEPT !.pc = "cf_dests"]]
    /\ UNCHANGED <<stores, world>>

\* prisma.destination.findMany (with coordinates, by name), then the early
\* timeout check.
CalculateFromSourceDestinations(r) ==
    LET q == req[r] IN
    /\ q.pc = "cf_dests"
    /\ \E ds \in OrderedByName(destCoords, dstName), now \in CalculateNow(q) :
          req' = [req EXCEPT ![r] =
                    IF now > timeoutMs \div 10
                    THEN RespondError([q EXCEPT !.budgetExit = TRUE], 408, TRUE)
                    ELSE [q EXCEPT !.destinations = ds, !.elapsed = now,
                                   !.pc = "cf_existing"]]
    /\ UNCHANGED <<stores, world>>

\* The end of one round of the loop over the uncalculated destinations.
CalculateFromSourceNext(q, q1) ==
    IF q.i + 1 > Len(q.missing) THEN Respond(q1)
    ELSE [q1 EXCEPT !.i = q.i + 1]

\* prisma.distance.findMany for the source and these destinations; the loop
\* that pushes the existing rows and collects the other destinations stops
\* at the first round, the one after the first seen destinations, in which
\* the clock is past timeoutMs * 0.8; the calculations start when there is
\* one to do and the clock is below timeoutMs * 0.7.
CalculateFromSourceExisting(r) ==
    LET q == req[r]
        existing == RowsFor({q.sourceId} \X Range(q.destinations))
        RowOf(d) == CHOOSE x \in existing : x.destinationId = d
    IN
    /\ q.pc = "cf_existing"
    /\ \E seen \in 0..Len(q.destinations), now \in CalculateNow(q) :
          /\ seen < Len(q.destinations) => now > (timeoutMs * 8) \div 10
          /\ LET first == SubSeq(q.destinations, 1, seen)
                 cached == {x.destinationId : x \in existing}
                 pushed == SelectSeq(first, LAMBDA d : d \in cached)
                 q1 == [q EXCEPT
                          !.existing = existing, !.lookups = @ + 1,
                          !.results = [k \in 1..Len(pushed) |-> RowOf(pushed[k])],
                          !.missing = MissingOf(first, cached),
                          !.budgetExit = seen < Len(q.destinations),
                          !.elapsed = now]
             IN req' = [req EXCEPT ![r] =
                   IF Len(q1.missing) > 0 /\ now < (timeoutMs * 7) \div 10
                   THEN [q1 EXCEPT !.i = 1, !.pc = "cf_create"]
                   ELSE Respond(q1)]
    /\ UNCHANGED <<stores, world>>

\* One round of the loop over the uncalculated destinations: the timeout
\* check, calculateDistance, prisma.distance.create, then the delay.
CalculateFromSourceCreate(r) ==
    LET q == req[r]
        s == q.sourceId
        d == q.missing[q.i]
    IN
    /\ q.pc = "cf_create"
    /\ \E now \in CalculateNow(q) :
          LET q0 == [q EXCEPT !.elapsed = now]
              called == [q0 EXCEPT !.singleCalls = @ + 1,
                                   !.called = @ \cup {<<s, d>>}]
          IN
          IF now > (timeoutMs * 8) \div 10
          THEN /\ req' = [req EXCEPT ![r] =
                            Respond([q0 EXCEPT !.budgetExit = TRUE])]
               /\ UNCHANGED distances
          ELSE \E out \in CalculateDistanceOutcomes(s, d) :
             CASE out = "throw" ->
                    /\ req' = [req EXCEPT ![r] = RespondError(q, 500, FALSE)]
                    /\ UNCHANGED distances
               [] out = "null" ->
                    /\ req' = [req EXCEPT ![r] =
                          CalculateFromSourceNext(q, RateLimited(called))]
                    /\ UNCHANGED distances
               [] out = "result" ->
                    IF CreateSucceeds(s, d)
                    THEN /\ distances' = DistanceCreate(s, d, <<s, d>>)
                         /\ req' = [req EXCEPT ![r] =
                               CalculateFromSourceNext(q, RateLimited(
                                  [called EXCEPT
                                     !.results = Append(@, Row(s, d, <<s, d>>)),
                                     !.calculationCount = @ + 1]))]
                    ELSE /\ req' = [req EXCEPT ![r] = RespondError(
                               [called EXCEPT !.conflict = @ \cup Conflict(s, d)],
                               500, FALSE)]
                         /\ UNCHANGED distances
    /\ UNCHANGED <<sources, destinations, destCoords, srcName, dstName, world>>

(***************************************************************************)
(* GET /api/distances/stats.                                               *)
(***************************************************************************)
\* Math.round(a / b * 100) for a >= 0 and b > 0.
RoundPercent(a, b) == (200 * a + b) \div (2 * b)

StartStats(r) ==
    /\ req[r].op = "idle"
    /\ req' = [req EXCEPT ![r] = [IdleReq EXCEPT !.op = "stats",
                                                !.pc = "st_count"]]
    /\ UNCHANGED <<stores, world>>

\* The three counts of Promise.all.
Counts == {"sources", "destinations", "calculatedDistances"}

\* What a count returns when the database runs it.
CountOf(table) ==
    CASE table = "sources" -> Cardinality(sources)
      [] table = "destinations" -> Cardinality(destinations)
      [] OTHER -> BagCardinality(distances)

\* The figures derived from the three counts.
StatsOf(sourceCount, destinationCount, distanceCount) ==
    LET totalPossibleDistances == sourceCount * destinationCount IN
    [sources |-> sourceCount,
     destinations |-> destinationCount,
     calculatedDistances |-> distanceCount,
     totalPossibleDistances |-> totalPossibleDistances,
     missingDistances |-> totalPossibleDistances - distanceCount,
     completionPercentage |->
         IF totalPossibleDistances > 0
         THEN RoundPercent(distanceCount, totalPossibleDistances)
         ELSE 0]

\* One of prisma.source.count(), prisma.destination.count() and
\* prisma.distance.count(): Promise.all sends the three statements together,
\* the database runs them one by one in an order of its own, with the
\* statements of other requests between them.  With the last count the
\* figures are derived and the response is sent.
StatsCount(r) ==
    LET q == req[r] IN
    /\ q.pc = "st_count"
    /\ \E table \in Counts \ q.counted :
          LET counts == [q.stats EXCEPT ![table] = CountOf(table)]
          IN req' = [req EXCEPT ![r] =
                IF q.counted \cup {table} = Counts
                THEN Respond([q EXCEPT !.counted = {},
                                !.stats = StatsOf(counts.sources,
                                                  counts.destinations,
                                                  counts.calculatedDistances)])
                ELSE [q EXCEPT !.counted = @ \cup {table}, !.stats = counts]]
    /\ UNCHANGED <<stores, world>>

(***************************************************************************)
(* GET /api/distances: the choice of the handler by the parameters of the  *)
(* request (an id that is absent is 0).                                    *)
(***************************************************************************)
\* A request without ids is a calculation, whatever its calculate says.
DispatchCalculating(sourceId, destinationId, calculate) ==
    IF sourceId # 0 /\ destinationId # 0 THEN "single"
    ELSE IF sourceId # 0 THEN "fromSource"
    ELSE IF destinationId # 0 THEN "toDestination"
    ELSE "all"

Dispatch(sourceId, destinationId, calculate) ==
    IF sourceId # 0 /\ destinationId # 0 THEN "single"
    ELSE IF sourceId # 0 THEN "fromSource"
    ELSE IF destinationId # 0 THEN "toDestination"
    ELSE IF calculate THEN "all"
    ELSE "list"

\* Where each handler starts.
FirstPc == [single |-> "s_cached", fromSource |-> "fs_source",
            toDestination |-> "td_dest", all |-> "a_sources",
            list |-> "l_count"]

StartGet(r, sourceId, destinationId, calculate, page, limit, sourceFilter, destinationFilter) ==
    LET op == Dispatch(sourceId, destinationId, calculate) IN
    /\ req[r].op = "idle"
    /\ req' = [req EXCEPT ![r] =
                 IF op = "list"
                 THEN [IdleReq EXCEPT !.op = op, !.pc = FirstPc[op],
                          !.calculate = calculate,
                          !.page = page, !.limit = limit,
                          !.sourceFilter = sourceFilter,
                          !.destinationFilter = destinationFilter]
                 ELSE [IdleReq EXCEPT !.op = op, !.pc = FirstPc[op],
                          !.calculate = calculate,
                          !.sourceId = sourceId,
                          !.destinationId = destinationId]]
    /\ UNCHANGED <<stores, world>>

(***************************************************************************)
(* The response is sent and the slot is free again.                        *)
(***************************************************************************)
\* No call of the adapter on its own.
NoCall ==
    [fn |-> "none", origins |-> <<>>, dests |-> <<>>, responses |-> <<>>,
     results |-> <<>>, pincode |-> FALSE, address |-> FALSE, found |-> <<>>,
     queries |-> <<>>, location |-> "null", answer |-> "none",
     outcome |-> "none"]

Finish(r) ==
    /\ req[r].pc = "done"
    /\ req' = [req EXCEPT ![r] = IdleReq]
    /\ UNCHANGED <<stores, world>>

(***************************************************************************)
(* Specification.                                                          *)
(***************************************************************************)
NoRun == [op |-> "idle", sourceId |-> 0, destinationId |-> 0, status |-> 0,
          budgetExit |-> FALSE, rows |-> {}, cached |-> {}]

\* Distinct names whose order is not the order of the ids.
SomeNames == << <<"b", "a">>, <<"a", "B">>, <<"B", "b">>, <<"A", "a">> >>

Init ==
    /\ sources = SourceIds
    /\ destinations = 1..MaxConcurrentDestination
    /\ destCoords = destinations \ {MaxConcurrentDestination}
    /\ srcName = [s \in SourceIds |-> SomeNames[s]]
    /\ dstName = [d \in DestinationIds |-> SomeNames[d]]
    /\ distances = EmptyBag
    /\ noRoute = {<<MaxSource, MaxConcurrentDestination>>}
    /\ apiKey = TRUE
    /\ overQuota = FALSE
    /\ dstPincode = [d \in DestinationIds |-> <<>>]
    /\ pincodeUnique = FALSE
    /\ req = [r \in Requests |-> IdleReq]
    /\ prev = NoRun
    /\ client = IdleClient
    /\ adapter = NoCall

\* Concurrent requests name the sources and the destinations present at the start.
Next ==
    \E r \in Requests :
       \/ \E s \in SourceIds, d \in 1..MaxConcurrentDestination : StartSingle(r, s, d)
       \/ SingleCached(r)
       \/ SingleLoad(r)
       \/ SingleGeocode(r)
       \/ SingleCalc(r)
       \/ \E s \in SourceIds : StartFromSource(r, s)
       \/ FromSourceSource(r)
       \/ FromSourceDestinations(r)
       \/ FromSourceExisting(r)
       \/ FromSourceBatch(r)
       \/ FromSourcePersist(r)
       \/ FromSourceFallback(r)
       \/ \E d \in 1..MaxConcurrentDestination : StartToDestination(r, d)
       \/ ToDestinationDestination(r)
       \/ ToDestinationSources(r)
       \/ ToDestinationExisting(r)
       \/ ToDestinationBatch(r)
       \/ ToDestinationPersist(r)
       \/ ToDestinationFallback(r)
       \/ StartAll(r)
       \/ AllSources(r)
       \/ AllDestinations(r)
       \/ AllExisting(r)
       \/ AllLoop(r)
       \/ \E s \in SourceIds : StartDeleteSource(r, s)
       \/ DeleteSourceFind(r)
       \/ DeleteSourceCount(r)
       \/ DeleteSourceDelete(r)
       \/ \E d \in 1..MaxConcurrentDestination : StartDeleteDestination(r, d)
       \/ DeleteDestinationFind(r)
       \/ DeleteDestinationCount(r)
       \/ DeleteDestinationDelete(r)
       \/ Finish(r)

Spec == Init /\ [][Next]_vars

(***************************************************************************)
(* One client that sends its requests one after the other: any stores, any *)
(* provider.  The run that ended is kept for comparison with the next.     *)
(***************************************************************************)
SeqFinish(r) ==
    /\ req[r].pc = "done"
    /\ req' = [req EXCEPT ![r] = IdleReq]
    /\ prev' = [op |-> req[r].op, sourceId |-> req[r].sourceId,
                destinationId |-> req[r].destinationId,
                status |-> req[r].status, budgetExit |-> req[r].budgetExit,
                rows |-> ResponseRows(req[r]),
                cached |-> DistanceRows]
    /\ UNCHANGED <<stores, noRoute, apiKey, overQuota, dstPincode, pincodeUnique,
                 client, adapter>>

\* The client repeats its request.
Repeats(op, s, d) ==
    prev = NoRun \/ (prev.op = op /\ prev.sourceId = s /\ prev.destinationId = d)

SeqInit ==
    /\ sources = SourceIds
    /\ destinations = DestinationIds
    /\ destCoords \in {DestinationIds, DestinationIds \ {MaxDestination}}
    /\ srcName = [s \in SourceIds |-> SomeNames[s]]
    /\ dstName = [d \in DestinationIds |-> SomeNames[d]]
    /\ distances = EmptyBag
    /\ noRoute \in {{}, {<<1, 1>>}}
    /\ apiKey \in BOOLEAN
    /\ overQuota = TRUE
    /\ dstPincode = [d \in DestinationIds |-> <<>>]
    /\ pincodeUnique = FALSE
    /\ req = [r \in Requests |-> IdleReq]
    /\ prev = NoRun
    /\ client = IdleClient
    /\ adapter = NoCall

SeqNext ==
    \/ \E s \in SourceIds, d \in DestinationIds :
          Repeats("single", s, d) /\ StartSingle(1, s, d)
    \/ SingleCached(1)
    \/ SingleLoad(1)
    \/ SingleGeocode(1)
    \/ SingleCalc(1)
    \/ \E s \in SourceIds : Repeats("fromSource", s, 0) /\ StartFromSource(1, s)
    \/ FromSourceSource(1)
    \/ FromSourceDestinations(1)
    \/ FromSourceExisting(1)
    \/ FromSourceBatch(1)
    \/ FromSourcePersist(1)
    \/ FromSourceFallback(1)
    \/ \E d \in DestinationIds :
          Repeats("toDestination", 0, d) /\ StartToDestination(1, d)
    \/ ToDestinationDestination(1)
    \/ ToDestinationSources(1)
    \/ ToDestinationExisting(1)
    \/ ToDestinationBatch(1)
    \/ ToDestinationPersist(1)
    \/ ToDestinationFallback(1)
    \/ Repeats("all", 0, 0) /\ StartAll(1)
    \/ AllSources(1)
    \/ AllDestinations(1)
    \/ AllExisting(1)
    \/ AllLoop(1)
    \/ SeqFinish(1)

SeqSpec == SeqInit /\ [][SeqNext]_vars

(***************************************************************************)
(* The list endpoint and the page loader over any table, with no writer.   *)
(***************************************************************************)
\* Names that tie, and names that differ by case only.
QueryNames == {<<"a", "B">>, <<"A", "b">>, <<"b">>}
SourceFilters == {<<>>, <<"a", "b">>, <<"B">>, <<"b", "a">>}
DestinationFilters == {<<>>, <<"a">>, <<"B", "b">>}
\* The destinations that have rows in the tables listed.
QueryDestinationIds == {1, 2}

QueryInit ==
    /\ sources = SourceIds
    /\ destinations = DestinationIds
    /\ destCoords = DestinationIds
    /\ srcName \in [SourceIds -> QueryNames]
    /\ dstName = [d \in DestinationIds |-> SomeNames[d]]
    /\ \E P \in SUBSET (SourceIds \X QueryDestinationIds) :
          distances = SetToBag({Row(p[1], p[2], p) : p \in P})
    /\ noRoute = {}
    /\ apiKey = TRUE
    /\ overQuota = FALSE
    /\ dstPincode = [d \in DestinationIds |-> <<>>]
    /\ pincodeUnique = FALSE
    /\ req = [r \in Requests |-> IdleReq]
    /\ prev = NoRun
    /\ client = IdleClient
    /\ adapter = NoCall

QueryNext ==
    \/ \E page \in 1..MaxPage, limit \in 1..MaxLimit,
          sourceFilter \in SourceFilters,
          destinationFilter \in DestinationFilters :
          /\ client.pc = "idle"
          /\ StartList(1, page, limit, sourceFilter, destinationFilter)
    \/ ListCount(1)
    \/ ListFindMany(1)
    \/ client.pc = "idle" /\ Finish(1)
    \/ LoaderFetch(1)
    \/ LoaderReceive(1)

QuerySpec == QueryInit /\ [][QueryNext]_vars

(***************************************************************************)
(* The provider adapter on its own: each of its functions called with any  *)
(* arguments, the provider answering in any way.                           *)
(***************************************************************************)
\* The lists without repetition over S.
Lists(S) ==
    UNION {{q \in [1..n -> S] : \A a, b \in 1..n : q[a] = q[b] => a = b} :
           n \in 0..Cardinality(S)}

\* batchCalculateDistances(origins, destinations).
CallBatch ==
    /\ adapter.fn = "none"
    /\ \E origins \in Lists(SourceIds), dests \in Lists(DestinationIds) :
          IF ~apiKey
          THEN adapter' = [NoCall EXCEPT !.fn = "batchCalculateDistances",
                              !.origins = origins, !.dests = dests,
                              !.outcome = "throw"]
          ELSE \E responses \in BatchResponses(origins, dests) :
                  adapter' = [NoCall EXCEPT !.fn = "batchCalculateDistances",
                                 !.origins = origins, !.dests = dests,
                                 !.responses = responses,
                                 !.results = batchCalculateDistances(
                                                origins, dests, responses),
                                 !.outcome = "return"]
    /\ UNCHANGED <<stores, noRoute, apiKey, overQuota, dstPincode, pincodeUnique,
                 req, prev, client>>

\* geocodeAddressWithFallbacks(name, pincode, address).
CallGeocode ==
    /\ adapter.fn = "none"
    /\ \E pincode, address \in BOOLEAN,
          found \in [1..Len(Strategies) -> BOOLEAN] :
          adapter' =
             IF ~apiKey
             THEN [NoCall EXCEPT !.fn = "geocodeAddressWithFallbacks",
                      !.pincode = pincode, !.address = address,
                      !.found = found, !.outcome = "throw"]
             ELSE LET out == geocodeAddressWithFallbacks(pincode, address, found)
                  IN [NoCall EXCEPT !.fn = "geocodeAddressWithFallbacks",
                         !.pincode = pincode, !.address = address,
                         !.found = found, !.queries = out.queries,
                         !.location = out.location, !.outcome = "return"]
    /\ UNCHANGED <<stores, noRoute, apiKey, overQuota, dstPincode, pincodeUnique,
                 req, prev, client>>

\* calculateDistance(origin, destination).
CallCalculateDistance ==
    /\ adapter.fn = "none"
    /\ \E s \in SourceIds, d \in DestinationIds :
          \E answer \in ProviderAnswers(s, d) :
             adapter' = [NoCall EXCEPT !.fn = "calculateDistance",
                            !.origins = <<s>>, !.dests = <<d>>,
                            !.answer = IF apiKey THEN answer ELSE "none",
                            !.outcome = calculateDistance(answer)]
    /\ UNCHANGED <<stores, noRoute, apiKey, overQuota, dstPincode, pincodeUnique,
                 req, prev, client>>

AdapterReturn ==
    /\ adapter.fn # "none"
    /\ adapter' = NoCall
    /\ UNCHANGED <<stores, noRoute, apiKey, overQuota, dstPincode, pincodeUnique,
                 req, prev, client>>

AdapterInit ==
    /\ sources = SourceIds
    /\ destinations = DestinationIds
    /\ destCoords = DestinationIds
    /\ srcName = [s \in SourceIds |-> SomeNames[s]]
    /\ dstName = [d \in DestinationIds |-> SomeNames[d]]
    /\ distances = EmptyBag
    /\ noRoute \in {{}, {<<1, 1>>}}
    /\ apiKey \in BOOLEAN
    /\ overQuota = TRUE
    /\ dstPincode = [d \in DestinationIds |-> <<>>]
    /\ pincodeUnique = FALSE
    /\ req = [r \in Requests |-> IdleReq]
    /\ prev = NoRun
    /\ client = IdleClient
    /\ adapter = NoCall

AdapterNext ==
    \/ CallBatch
    \/ CallGeocode
    \/ CallCalculateDistance
    \/ AdapterReturn

AdapterSpec == AdapterInit /\ [][AdapterNext]_vars

(***************************************************************************)
(* Requests without ids, one after the other: the list, the statistics and *)
(* the calculation of the full matrix, over a table that holds a row.      *)
(***************************************************************************)
ReadInit ==
    /\ sources = SourceIds
    /\ destinations = DestinationIds
    /\ destCoords = DestinationIds \ {MaxDestination}
    /\ srcName = [s \in SourceIds |-> SomeNames[s]]
    /\ dstName = [d \in DestinationIds |-> SomeNames[d]]
    /\ distances = SetToBag({Row(1, 1, <<1, 1>>)})
    /\ noRoute = {}
    /\ apiKey = TRUE
    /\ overQuota = FALSE
    /\ dstPincode = [d \in DestinationIds |-> <<>>]
    /\ pincodeUnique = FALSE
    /\ req = [r \in Requests |-> IdleReq]
    /\ prev = NoRun
    /\ client = IdleClient
    /\ adapter = NoCall

ReadNext ==
    \/ \E calculate \in BOOLEAN, page \in 1..MaxPage, limit \in 1..MaxLimit,
          sourceFilter \in SourceFilters,
          destinationFilter \in DestinationFilters :
          StartGet(1, 0, 0, calculate, page, limit,
                   sourceFilter, destinationFilter)
    \/ ListCount(1)
    \/ ListFindMany(1)
    \/ StartStats(1)
    \/ StatsCount(1)
    \/ AllSources(1)
    \/ AllDestinations(1)
    \/ AllExisting(1)
    \/ AllLoop(1)
    \/ Finish(1)

ReadSpec == ReadInit /\ [][ReadNext]_vars

(***************************************************************************)
(* Requests with ids, one after the other, over stores in which a source   *)
(* and a destination are absent: GET with a source id, a destination id or *)
(* both.                                                                   *)
(***************************************************************************)
ScopeInit ==
    /\ sources = SourceIds \ {MaxSource}
    /\ destinations = DestinationIds \ {MaxDestination}
    /\ destCoords = {1}
    /\ srcName = [s \in SourceIds |-> SomeNames[s]]
    /\ dstName = [d \in DestinationIds |-> SomeNames[d]]
    /\ distances = EmptyBag
    /\ noRoute = {}
    /\ apiKey = TRUE
    /\ overQuota = FALSE
    /\ dstPincode = [d \in DestinationIds |-> <<>>]
    /\ pincodeUnique = FALSE
    /\ req = [r \in Requests |-> IdleReq]
    /\ prev = NoRun
    /\ client = IdleClient
    /\ adapter = NoCall

ScopeNext ==
    \/ \E sourceId \in 0..MaxSource, destinationId \in 0..MaxDestination,
          calculate \in BOOLEAN :
          /\ sourceId # 0 \/ destinationId # 0
          /\ StartGet(1, sourceId, destinationId, calculate, 1, 1, <<>>, <<>>)
    \/ SingleCached(1)
    \/ SingleLoad(1)
    \/ SingleGeocode(1)
    \/ SingleCalc(1)
    \/ FromSourceSource(1)
    \/ FromSourceDestinations(1)
    \/ FromSourceExisting(1)
    \/ FromSourceBatch(1)
    \/ FromSourcePersist(1)
    \/ FromSourceFallback(1)
    \/ ToDestinationDestination(1)
    \/ ToDestinationSources(1)
    \/ ToDestinationExisting(1)
    \/ ToDestinationBatch(1)
    \/ ToDestinationPersist(1)
    \/ ToDestinationFallback(1)
    \/ Finish(1)

ScopeSpec == ScopeInit /\ [][ScopeNext]_vars

(***************************************************************************)
(* The statistics in one slot while the other slot deletes sources and     *)
(* destinations and completes single pairs.                                *)
(***************************************************************************)
StatsInit ==
    /\ sources = SourceIds
    /\ destinations = 1..MaxConcurrentDestination
    /\ destCoords = {1}
    /\ srcName = [s \in SourceIds |-> SomeNames[s]]
    /\ dstName = [d \in DestinationIds |-> SomeNames[d]]
    /\ distances = SetToBag({Row(s, 1, <<s, 1>>) : s \in SourceIds})
    /\ noRoute = {}
    /\ apiKey = TRUE
    /\ overQuota = FALSE
    /\ dstPincode = [d \in DestinationIds |-> <<>>]
    /\ pincodeUnique = FALSE
    /\ req = [r \in Requests |-> IdleReq]
    /\ prev = NoRun
    /\ client = IdleClient
    /\ adapter = NoCall

StatsNext ==
    \/ StartStats(1)
    \/ StatsCount(1)
    \/ Finish(1)
    \/ \E s \in SourceIds, d \in 1..MaxConcurrentDestination : StartSingle(2, s, d)
    \/ SingleCached(2)
    \/ SingleLoad(2)
    \/ SingleGeocode(2)
    \/ SingleCalc(2)
    \/ \E s \in SourceIds : StartDeleteSource(2, s)
    \/ DeleteSourceFind(2)
    \/ DeleteSourceCount(2)
    \/ DeleteSourceDelete(2)
    \/ \E d \in 1..MaxConcurrentDestination : StartDeleteDestination(2, d)
    \/ DeleteDestinationFind(2)
    \/ DeleteDestinationCount(2)
    \/ DeleteDestinationDelete(2)
    \/ Finish(2)

StatsSpec == StatsInit /\ [][StatsNext]_vars

(***************************************************************************)
(* Creates and updates of destinations in both slots, over a database with *)
(* or without the unique index on the pincode.                             *)
(***************************************************************************)
\* The pincodes of the requests: none, two pincodes, and one typed with a
\* leading blank.
Pincodes == {<<>>, <<"1">>, <<" ", "1">>, <<"2">>}

PincodeInit ==
    /\ sources = SourceIds
    /\ destinations = {1}
    /\ destCoords = {1}
    /\ srcName = [s \in SourceIds |-> SomeNames[s]]
    /\ dstName = [d \in DestinationIds |-> SomeNames[d]]
    /\ dstPincode = [d \in DestinationIds |-> <<>>]
    /\ distances = EmptyBag
    /\ noRoute = {}
    /\ apiKey = TRUE
    /\ overQuota = FALSE
    /\ pincodeUnique \in BOOLEAN
    /\ req = [r \in Requests |-> IdleReq]
    /\ prev = NoRun
    /\ client = IdleClient
    /\ adapter = NoCall

PincodeNext ==
    \E r \in Requests :
       \/ \E pincode \in Pincodes, coordinates \in BOOLEAN :
             StartPost(r, SomeNames[2], pincode, coordinates)
       \/ PostFind(r)
       \/ PostCreate(r)
       \/ \E id \in 1..MaxConcurrentDestination, pincode \in Pincodes,
             coordinates \in BOOLEAN :
             StartPut(r, id, SomeNames[1], pincode, coordinates)
       \/ PutFind(r)
       \/ PutUpdate(r)
       \/ Finish(r)

PincodeSpec == PincodeInit /\ [][PincodeNext]_vars

(***************************************************************************)
(* The calculate route, one request after the other, with single pairs     *)
(* completed in between: any provider, a destination with or without       *)
(* coordinates.                                                            *)
(***************************************************************************)
CalculateInit ==
    /\ sources = SourceIds
    /\ destinations = DestinationIds
    /\ destCoords \in {DestinationIds, DestinationIds \ {MaxDestination}}
    /\ srcName = [s \in SourceIds |-> SomeNames[s]]
    /\ dstName = [d \in DestinationIds |-> SomeNames[d]]
    /\ distances = EmptyBag
    /\ noRoute \in {{}, {<<1, 1>>}}
    /\ apiKey \in BOOLEAN
    /\ overQuota = FALSE
    /\ dstPincode = [d \in DestinationIds |-> <<>>]
    /\ pincodeUnique = FALSE
    /\ req = [r \in Requests |-> IdleReq]
    /\ prev = NoRun
    /\ client = IdleClient
    /\ adapter = NoCall

CalculateNext ==
    \/ \E s \in SourceIds, d \in DestinationIds : StartSingle(1, s, d)
    \/ SingleCached(1)
    \/ SingleLoad(1)
    \/ SingleGeocode(1)
    \/ SingleCalc(1)
    \/ \E d \in DestinationIds : StartCalculateToDestination(1, d)
    \/ CalculateToDestinationDestination(1)
    \/ CalculateToDestinationSources(1)
    \/ CalculateToDestinationLookup(1)
    \/ CalculateToDestinationCreate(1)
    \/ \E s \in SourceIds : StartCalculateFromSource(1, s)
    \/ CalculateFromSourceSource(1)
    \/ CalculateFromSourceDestinations(1)
    \/ CalculateFromSourceExisting(1)
    \/ CalculateFromSourceCreate(1)
    \/ Finish(1)

CalculateSpec == CalculateInit /\ [][CalculateNext]_vars

(***************************************************************************)
(* One source scope run again and again, over one destination more than a  *)
(* batch takes, any of the pairs without a route.  The provider is         *)
(* available: a batch is answered in full and in time again and again, and *)
(* a run is within its budget again and again.                             *)
(***************************************************************************)
LiveDestinations == 1..(BATCH_SIZE_LIMIT + 1)

LiveInit ==
    /\ sources = {1}
    /\ destinations = LiveDestinations
    /\ destCoords = LiveDestinations
    /\ srcName = [s \in SourceIds |-> SomeNames[s]]
    /\ dstName = [d \in LiveDestinations |-> SomeNames[d]]
    /\ distances = EmptyBag
    /\ noRoute \in SUBSET ({1} \X LiveDestinations)
    /\ apiKey = TRUE
    /\ overQuota = FALSE
    /\ dstPincode = [d \in LiveDestinations |-> <<>>]
    /\ pincodeUnique = FALSE
    /\ req = [r \in Requests |-> IdleReq]
    /\ prev = NoRun
    /\ client = IdleClient
    /\ adapter = NoCall

LiveNext ==
    \/ StartFromSource(1, 1)
    \/ FromSourceSource(1)
    \/ FromSourceDestinations(1)
    \/ FromSourceExisting(1)
    \/ FromSourceBatch(1)
    \/ FromSourcePersist(1)
    \/ FromSourceFallback(1)
    \/ Finish(1)

\* The batch request is answered in full before the timer fires.
BatchAnswered(r) ==
    /\ FromSourceBatch(r)
    /\ ~req'[r].batchFailed
    /\ req'[r].pc # "fs_fallback"

\* The budget check at the start of the run finds it early enough for a
\* batch.
StartedWithinBudget(r) ==
    /\ FromSourceSource(r)
    /\ req'[r].pc = "fs_dests"
    /\ req'[r].elapsed <= timeLimit - timeLimitBuffer

\* The budget check before the batch finds the run within the budget.
BatchWithinBudget(r) ==
    /\ FromSourceExisting(r)
    /\ ~req'[r].budgetExit

LiveSpec ==
    /\ LiveInit
    /\ [][LiveNext]_vars
    /\ WF_vars(LiveNext)
    /\ SF_vars(BatchAnswered(1))
    /\ SF_vars(StartedWithinBudget(1))
    /\ SF_vars(BatchWithinBudget(1))

(***************************************************************************)
(* Properties.                                                             *)
(***************************************************************************)
PairOf(x) == <<x.sourceId, x.destinationId>>
PairsOf(rows) == {PairOf(x) : x \in rows}
Done(r) == req[r].pc = "done"
CompletionOps == {"single", "fromSource", "toDestination", "all"}
DeleteOps == {"deleteSource", "deleteDestination"}

\* The candidate pairs of the scope of a request.
ScopePairs(q) ==
    CASE q.op = "single" -> {<<q.sourceId, q.destinationId>>}
      [] q.op = "fromSource" -> {q.sourceId} \X destCoords
      [] q.op = "toDestination" -> sources \X ({q.destinationId} \cap destCoords)
      [] q.op = "all" -> sources \X destCoords
      [] q.op = "calculateFromSource" -> {q.sourceId} \X destCoords
      [] q.op = "calculateToDestination" ->
            sources \X ({q.destinationId} \cap destCoords)
      [] OTHER -> {}

\* C1: in every state reachable by interleaving concurrent completion runs
\* (single pair, one source, one destination, full matrix), the Distance table
\* holds at most one row for every (sourceId, destinationId) pair.
AtMostOneRowPerPair ==
    /\ \A x \in DistanceRows : distances[x] = 1
    /\ \A x, y \in DistanceRows : PairOf(x) = PairOf(y) => x = y

\* Two runs raced on one missing pair: the later create was refused and the
\* row of the earlier one is in the table.
RaceOnOnePair ==
    \E r \in Requests :
       /\ req[r].op \in CompletionOps
       /\ req[r].conflict # {}
       /\ RowsFor(req[r].conflict) # {}

\* C2: a run whose create hits the duplicate-key conflict recovers locally: it
\* does not end in an error response, and the existing row of the pair is in
\* its result.
ConflictRecoveredLocally ==
    \A r \in Requests :
       (Done(r) /\ req[r].conflict # {}) =>
          /\ req[r].status = 200
          /\ req[r].conflict \subseteq PairsOf(ResponseRows(req[r]))

BatchCapacity(q) ==
    IF q.op = "fromSource" THEN maxDestinationsPerRequest
    ELSE maxOriginsPerRequest

\* C4: a run over a scope with k missing and m cached pairs makes at most
\* ceil(k / batchCapacity) batch requests, makes single-pair calls only after
\* the batch failed, and makes no provider request for a cached pair.
NoRedundantFetch ==
    \A r \in Requests :
       LET q == req[r] IN
       (Done(r) /\ q.op \in {"fromSource", "toDestination", "all"}) =>
          /\ q.batchRequests <= CeilDiv(Len(q.missing), BatchCapacity(q))
          /\ q.singleCalls > 0 => q.fallbackCause # "none"
          /\ q.called \cap PairsOf(q.existing) = {}

\* C5: a run that exhausts its budget returns the m cached rows and the j rows
\* it processed, with the timeout flag set; the run of the same scope that
\* follows with a fresh budget returns all rows cached before it, no pair twice.
PartialCompletion ==
    LET q == req[1] IN
    /\ (q.pc = "done" /\ q.budgetExit) =>
          /\ q.timeout
          /\ ResponseRows(q) = RowsFor(ScopePairs(q))
          /\ ResponseCount(q) = Cardinality(ScopePairs(q) \cap PairsOf(DistanceRows))
    /\ (q.pc = "done" /\ prev.budgetExit /\ ~q.budgetExit /\ q.status = 200) =>
          /\ RowsFor(ScopePairs(q)) \cap prev.cached \subseteq ResponseRows(q)
          /\ ResponseCount(q) = Cardinality(PairsOf(ResponseRows(q)))

\* C6: every run that exits early because the budget is exceeded carries the
\* timeout: true indicator in its response.
EarlyExitSetsTimeout ==
    \A r \in Requests : (Done(r) /\ req[r].budgetExit) => req[r].timeout

\* C7: the response of a delete of a Source or a Destination reports the
\* number of Distance rows the delete removed, also when completion runs
\* insert rows of that entity while the delete runs.
DeleteReportsRemovedRows ==
    \A r \in Requests :
       (Done(r) /\ req[r].op \in DeleteOps /\ req[r].status = 200) =>
          req[r].deletedDistances = req[r].removed

\* C8: in every reachable state every Distance row references a Source and a
\* Destination that exist, whatever the interleaving of deletes and
\* completion runs.
NoOrphanRows ==
    \A x \in DistanceRows :
       x.sourceId \in sources /\ x.destinationId \in destinations

\* A delete removed rows while a completion run was under way, and that run's
\* next create was refused for the missing entity.
DeleteUnderCompletionRun ==
    \E r, o \in Requests :
       /\ Done(r)
       /\ req[r].op \in DeleteOps
       /\ req[r].removed > 0
       /\ req[o].op \in CompletionOps
       /\ req[o].fallbackCause = "create"
       /\ req[o].conflict = {}

\* filter occurs in name when case is ignored (the empty filter always does).
OccursFolded(name, filter) ==
    \E k \in 0..Len(name) :
       /\ k + Len(filter) <= Len(name)
       /\ \A j \in 1..Len(filter) : ToLower[name[k + j]] = ToLower[filter[j]]

MatchingRows(q) ==
    {x \in DistanceRows :
        /\ OccursFolded(srcName[x.sourceId], q.sourceFilter)
        /\ OccursFolded(dstName[x.destinationId], q.destinationFilter)}

\* C9: a list query returns only rows whose source name contains the source
\* filter and whose destination name contains the destination filter, case
\* ignored, and its total is the number of all such rows, whatever the page
\* and the page size.
FilteredList ==
    \A r \in Requests :
       LET q == req[r] IN
       (Done(r) /\ q.op = "list" /\ q.status = 200) =>
          /\ Range(q.results) \subseteq MatchingRows(q)
          /\ q.pagination.total = Cardinality(MatchingRows(q))

\* A list query with both filters that returned a row matching by case
\* folding only, and left rows out.
FilteredListByFolding ==
    \E r \in Requests :
       LET q == req[r] IN
       /\ Done(r)
       /\ q.op = "list"
       /\ q.sourceFilter # <<>>
       /\ q.destinationFilter # <<>>
       /\ MatchingRows(q) # DistanceRows
       /\ \E x \in Range(q.results) :
             ~ContainsSensitive(srcName[x.sourceId], q.sourceFilter)

\* C10: with no concurrent write, the pages of the list hold every row once,
\* in source-name-then-destination-name order, also when names tie (the
\* loader that reads page after page ends with exactly the rows of the
\* table); pages is ceil(total / limit), and hasMore says that rows remain
\* after the page.
DeterministicPagination ==
    /\ \A r \in Requests :
          LET q == req[r] IN
          (Done(r) /\ q.op = "list" /\ q.status = 200) =>
             /\ q.pagination.pages * q.limit >= q.pagination.total
             /\ (q.pagination.pages - 1) * q.limit < q.pagination.total
                   \/ q.pagination.total = 0
             /\ q.pagination.hasMore <=>
                   q.page * q.limit < Cardinality(MatchingRows(q))
    /\ client.pc = "loaded" =>
          /\ Len(client.allDistances) = Cardinality(DistanceRows)
          /\ Range(client.allDistances) = DistanceRows
          /\ \A a, b \in 1..Len(client.allDistances) :
                a < b => ~OrderByLess(client.allDistances[b],
                                      client.allDistances[a])

\* The runs that call the provider in a batch.
BatchOps == {"fromSource", "toDestination"}

\* C11: a run whose batch call failed, through the timeout or through an error
\* of the provider, calls the provider pair by pair for at most FALLBACK_LIMIT
\* of the missing pairs (as many as there are, up to that limit), and still
\* ends with status 200 and a result that holds the cached rows; the pairs whose
\* single call failed too are left out of it.
FallbackAfterBatchFailure ==
    \A r \in Requests :
       LET q == req[r] IN
       (/\ Done(r)
        /\ q.op \in BatchOps
        /\ q.batchFailed \/ q.fallbackCause \in {"timeout", "threw"}) =>
          /\ q.fallbackCause # "none"
          /\ q.singleCalls <= FALLBACK_LIMIT
          /\ apiKey => q.singleCalls = Min(FALLBACK_LIMIT, Len(q.missing))
          /\ q.status = 200
          /\ q.existing \subseteq ResponseRows(q)
          /\ ResponseRows(q) \subseteq DistanceRows

\* The first index of the slice of n elements that holds index k.
SliceStartOf(k, n) == k - ((k - 1) % n)

\* The provider request that carries origin i and destination j.
ChunkOf(i, j) ==
    <<SliceStartOf(i, maxOriginsPerRequest),
      SliceStartOf(j, maxDestinationsPerRequest)>>

\* The result of a pair: that of its route, null without one.
ExpectedCell(s, d) ==
    IF <<s, d>> \in noRoute THEN Null ELSE [ok |-> TRUE, distance |-> <<s, d>>]

\* C12: batchCalculateDistances returns (it does not throw) a row per origin
\* and a cell per destination; cell (i, j) is the result of origin i and
\* destination j, and null exactly for the cells of a request that failed, the
\* cells of the other requests being those of their pairs; every request
\* carries at most maxOriginsPerRequest origins and maxDestinationsPerRequest
\* destinations.
BatchStitched ==
    (adapter.fn = "batchCalculateDistances" /\ apiKey) =>
       /\ adapter.outcome = "return"
       /\ \A key \in DOMAIN adapter.responses :
             \A k \in 1..Len(adapter.responses[key].rows) :
                /\ Len(adapter.responses[key].rows) <= maxOriginsPerRequest
                /\ Len(adapter.responses[key].rows[k]) <= maxDestinationsPerRequest
       /\ Len(adapter.results) = Len(adapter.origins)
       /\ \A i \in 1..Len(adapter.origins) :
             /\ Len(adapter.results[i]) = Len(adapter.dests)
             /\ \A j \in 1..Len(adapter.dests) :
                   adapter.results[i][j] =
                      IF ChunkFailed(adapter.responses[ChunkOf(i, j)])
                      THEN Null
                      ELSE ExpectedCell(adapter.origins[i], adapter.dests[j])

\* Strategy k can be asked of this call: the fields of its query are present.
HasFields(k) ==
    /\ k \in {1, 2, 3} => adapter.pincode
    /\ k \in {1, 4} => adapter.address

\* The strategies of this call that would find a location.
Yielding == {k \in 1..Len(Strategies) : HasFields(k) /\ adapter.found[k]}

\* The queries of the strategies up to m whose fields are present, in order.
QueriesUpTo(m) ==
    SelectSeq(SubSeq(Strategies, 1, m),
              LAMBDA s : \E k \in 1..m : Strategies[k] = s /\ HasFields(k))

\* C13: geocodeAddressWithFallbacks asks its strategies in the order name +
\* address + pincode, name + pincode, pincode, name + address, name, leaving
\* out those whose fields are absent; it stops at the first that finds a
\* location and returns that location, and it returns null only when every
\* strategy it could ask found nothing.
GeocodeFirstStrategy ==
    (adapter.fn = "geocodeAddressWithFallbacks" /\ adapter.outcome = "return") =>
       IF Yielding = {}
       THEN /\ adapter.location = "null"
            /\ adapter.queries = QueriesUpTo(Len(Strategies))
       ELSE LET m == CHOOSE k \in Yielding : \A j \in Yielding : k <= j
            IN /\ adapter.location = Strategies[m]
               /\ adapter.queries = QueriesUpTo(m)

\* A destination with an address and no pincode: the strategies that need the
\* pincode are left out, name + address finds nothing, name finds the place.
GeocodeFallsThrough ==
    /\ adapter.fn = "geocodeAddressWithFallbacks"
    /\ adapter.outcome = "return"
    /\ ~adapter.pincode
    /\ adapter.address
    /\ adapter.found[1]
    /\ ~adapter.found[4]
    /\ adapter.queries = <<"name, address", "name">>
    /\ adapter.location = "name"

\* C14: calculateDistance returns null, and does not throw, when the provider
\* reports no route, and it throws when the request fails (transport,
\* authentication): a caller that gets null knows that there is no route.
NoRouteToldApart ==
    adapter.fn = "calculateDistance" =>
       /\ adapter.answer = "ROUTE_NOT_FOUND" => adapter.outcome = "null"
       /\ adapter.answer = "error" => adapter.outcome = "throw"
       /\ adapter.outcome = "null" => adapter.answer = "ROUTE_NOT_FOUND"

\* C15: without the provider credentials a completion run of any scope ends
\* in an error: it returns no rows with a success status, it makes no provider
\* request and it writes nothing.
NotConfiguredIsFatal ==
    \A r \in Requests :
       LET q == req[r] IN
       (Done(r) /\ q.op \in CompletionOps /\ ~apiKey) =>
          /\ q.status # 200
          /\ ResponseRows(q) = {}
          /\ q.batchRequests = 0
          /\ q.singleCalls = 0
          /\ distances = EmptyBag

\* C16: a single-pair request whose destination has no coordinates calls the
\* geocoder once.  When a location is found it is stored on the destination
\* and the distance is calculated; when none is found the request ends with
\* the client error 422, no Distance row of the pair is created and the
\* destination is left without coordinates.
GeocodeForSinglePair ==
    LET q == req[1]
        s == q.sourceId
        d == q.destinationId
    IN (q.pc = "done" /\ q.op = "single" /\ apiKey) =>
          /\ q.geocodeCalls <= 1
          /\ q.location = "found" =>
                /\ d \in destCoords
                /\ q.singleCalls = 1
                /\ q.status = 200 => PairsOf(ResponseRows(q)) = {<<s, d>>}
          /\ q.location = "null" =>
                /\ q.status = 422
                /\ q.singleCalls = 0
                /\ ~HasRow(s, d)
                /\ d \notin destCoords
          /\ (q.location = "none" /\ ~HasRow(s, d)) => d \in destCoords

\* A single-pair request had the location of its destination found and
\* returned the new row of the pair.
GeocodedThenCalculated ==
    LET q == req[1] IN
    /\ q.pc = "done"
    /\ q.op = "single"
    /\ q.geocodeCalls = 1
    /\ q.location = "found"
    /\ q.status = 200
    /\ HasRow(q.sourceId, q.destinationId)

BulkOps == {"fromSource", "toDestination", "all"}

\* The destinations that have no coordinates.
Unlocated == destinations \ destCoords

\* C17: a bulk run (one source, one destination, full matrix) makes no
\* provider call and creates no Distance row for a destination without
\* coordinates, and it does not fail for such a destination: the destination
\* is left out and the run answers as it does without it.
BulkSkipsUnlocated ==
    LET q == req[1] IN
    (q.pc = "done" /\ q.op \in BulkOps) =>
       /\ q.called \cap (SourceIds \X Unlocated) = {}
       /\ \A x \in DistanceRows : x.destinationId \notin Unlocated
       /\ q.status \notin {404, 422}

\* C18: a run over the scope of one source calls the geocoder for a
\* destination that has no coordinates: a run that went through its scope
\* (status 200, the budget not exceeded) while a destination is still without
\* coordinates has tried the fallback chain for it, and the chain found
\* nothing (a destination the chain resolves has its coordinates stored).
FromSourceGeocodes ==
    LET q == req[1] IN
    (/\ q.pc = "done"
     /\ q.op = "fromSource"
     /\ q.status = 200
     /\ ~q.budgetExit
     /\ apiKey
     /\ Unlocated # {}) =>
        /\ q.geocodeCalls > 0
        /\ q.location = "null"

\* A request of a read path: the statistics, or a GET of the distances
\* without a source id, a destination id or calculate.
ReadRequest(q) ==
    /\ q.op # "idle"
    /\ q.sourceId = 0
    /\ q.destinationId = 0
    /\ ~q.calculate

\* C19: no step of a read request (the list with its page, page size and
\* name filters; the statistics) changes the Source, Destination or Distance
\* store, and a read request never calls the route provider or the geocoder.
ReadPathsChangeNothing ==
    [][\A r \in Requests :
          (ReadRequest(req[r]) \/ ReadRequest(req'[r])) =>
             /\ UNCHANGED stores
             /\ req'[r].batchRequests = 0
             /\ req'[r].singleCalls = 0
             /\ req'[r].geocodeCalls = 0
             /\ req'[r].called = {}]_vars

\* The list and the statistics have answered over a table that a calculation
\* of the full matrix had added rows to.
ReadAfterCalculation ==
    LET q == req[1] IN
    /\ q.pc = "done"
    /\ q.status = 200
    /\ BagCardinality(distances) > 1
    /\ \/ q.op = "list" /\ Len(q.results) > 1
       \/ q.op = "stats" /\ q.stats.calculatedDistances > 1

\* x stands before y although y sorts before x, by source name and then by
\* destination name, in the order of localeCompare and in that of the
\* character codes alike.
OutOfOrder(x, y) ==
    /\ RowLess(y, x)
    /\ IF srcName[x.sourceId] = srcName[y.sourceId]
       THEN NameLess(dstName[y.destinationId], dstName[x.destinationId])
       ELSE NameLess(srcName[y.sourceId], srcName[x.sourceId])

\* C20: the rows a completion run of any scope returns hold no pair twice and
\* come in the order of the source names, then of the destination names: no
\* row stands before a row that sorts before it (the rows read from the table
\* without an order come first, then the rows the run pushed).
SortedNoDuplicates ==
    LET q == req[1] IN
    (q.pc = "done" /\ q.op \in CompletionOps /\ q.status = 200) =>
       /\ ResponseCount(q) = Cardinality(PairsOf(ResponseRows(q)))
       /\ \A a, b \in 1..Len(q.results) :
             a < b => ~OutOfOrder(q.results[a], q.results[b])
       /\ \A x \in q.unordered, y \in Range(q.results) : ~OutOfOrder(x, y)

\* The pair at index j of the batch of a run, and the pair the fallback loop
\* of the run is at.
BatchPair(q, j) ==
    IF q.op = "fromSource" THEN <<q.sourceId, q.toProcess[j]>>
    ELSE <<q.toProcess[j], q.destinationId>>

FallbackPair(q) ==
    IF q.op = "fromSource" THEN <<q.sourceId, q.missing[q.i]>>
    ELSE <<q.missing[q.i], q.destinationId>>

\* The pairs for which the batch of the run, all of whose requests were
\* answered, brought a cell without a route.
ReportedNoRoute(q) ==
    IF q.batchFailed THEN {}
    ELSE {BatchPair(q, j) :
            j \in {k \in 1..Min(Len(q.toProcess), Len(q.batchResults)) :
                      ~q.batchResults[k].ok}}

\* C21: a pair for which the provider reported to a run that no route exists
\* is not among the rows the run persists, and no step of the run calls the
\* provider for that pair again.
NoRouteNeverRetried ==
    [][\A r \in Requests :
          LET q == req[r] IN
          /\ ReportedNoRoute(q) \cap PairsOf(Range(req'[r].results)) = {}
          /\ (/\ q.pc \in {"fs_fallback", "td_fallback"}
              /\ req'[r].singleCalls > q.singleCalls) =>
                FallbackPair(q) \notin ReportedNoRoute(q)]_vars

\* A scope request (a pair, one source, one destination) that names a source
\* or a destination that does not exist.
NamesAbsent(q) ==
    /\ q.op \in {"single", "fromSource", "toDestination"}
    /\ \/ q.sourceId # 0 /\ q.sourceId \notin sources
       \/ q.destinationId # 0 /\ q.destinationId \notin destinations

\* C22: no step of a scope request that names a nonexistent Source or
\* Destination changes a store or calls the provider or the geocoder, and the
\* request ends with the error status 404 and no rows.
AbsentScopeRejected ==
    [][\A r \in Requests :
          (NamesAbsent(req[r]) \/ NamesAbsent(req'[r])) =>
             /\ UNCHANGED stores
             /\ req'[r].batchRequests = 0
             /\ req'[r].singleCalls = 0
             /\ req'[r].geocodeCalls = 0
             /\ req'[r].called = {}
             /\ req'[r].pc = "done" =>
                   /\ req'[r].status = 404
                   /\ ResponseRows(req'[r]) = {}]_vars

\* A request that names the absent source or the absent destination has been
\* answered 404 over a table that earlier runs filled.
AbsentScopeAnswered ==
    LET q == req[1] IN
    /\ q.pc = "done"
    /\ q.status = 404
    /\ NamesAbsent(q)
    /\ distances # EmptyBag

\* C23: the statistics report possiblePairs = sourceCount x destinationCount,
\* missingPairs = possiblePairs - cachedPairs and completionPercentage =
\* round(100 x cachedPairs / possiblePairs), 0 when possiblePairs = 0; in
\* every response, also one computed while deletes or completion runs are
\* under way, missingPairs >= 0 and 0 <= completionPercentage <= 100.
StatsWithinBounds ==
    \A r \in Requests :
       LET q == req[r]
           st == q.stats
       IN (Done(r) /\ q.op = "stats" /\ q.status = 200) =>
             /\ st.totalPossibleDistances = st.sources * st.destinations
             /\ st.missingDistances =
                   st.totalPossibleDistances - st.calculatedDistances
             /\ st.totalPossibleDistances = 0 => st.completionPercentage = 0
             /\ st.totalPossibleDistances > 0 =>
                   /\ 2 * st.totalPossibleDistances * st.completionPercentage
                         <= 200 * st.calculatedDistances + st.totalPossibleDistances
                   /\ 200 * st.calculatedDistances + st.totalPossibleDistances
                         < 2 * st.totalPossibleDistances
                              * (st.completionPercentage + 1)
             /\ st.missingDistances >= 0
             /\ st.completionPercentage >= 0
             /\ st.completionPercentage <= 100

\* C24: after any interleaving of creates and updates of destinations no two
\* destinations hold the same non-empty pincode, and a create or an update
\* that met a destination holding its pincode has been answered with the
\* conflict status 409.
PincodeStaysUnique ==
    /\ \A d, e \in destinations :
          (d # e /\ dstPincode[d] # <<>>) => dstPincode[d] # dstPincode[e]
    /\ \A r \in Requests :
          (Done(r) /\ req[r].duplicate) => req[r].status = 409

\* The pairs a run knows to be cached: the rows it read as existing and the
\* rows it has persisted itself.
KnownCached(q) == PairsOf(q.existing \cup Range(q.results))

\* C25: no step of a completion run calls the provider, in the batch or pair
\* by pair, for a pair that the run read as cached or has persisted itself
\* earlier in the run.
NoCallForCachedPair ==
    [][\A r \in Requests :
          LET q == req[r] IN
          /\ req'[r].batchRequests > q.batchRequests =>
                \A j \in 1..Len(q.toProcess) : BatchPair(q, j) \notin KnownCached(q)
          /\ req'[r].singleCalls > q.singleCalls =>
                CASE q.pc \in {"fs_fallback", "td_fallback"} ->
                        FallbackPair(q) \notin KnownCached(q)
                  [] q.pc = "a_loop" -> PairAt(q, q.i) \notin KnownCached(q)
                  [] OTHER -> <<q.sourceId, q.destinationId>> \notin KnownCached(q)]_vars

\* A step of a run that invokes the provider: a batch request or a single
\* calculateDistance call.
StartsProviderCall(r) ==
    \/ req'[r].batchRequests > req[r].batchRequests
    \/ req'[r].singleCalls > req[r].singleCalls

\* C26: a run for one source or one destination starts no provider call,
\* batch or individual fallback call, once more time than the configured
\* budget has passed since the run began.
NoCallAfterBudget ==
    [][\A r \in Requests :
          (req[r].op \in BatchOps /\ StartsProviderCall(r))
              => req[r].elapsed <= timeLimit]_vars

\* The runs over more than one candidate pair.
ScopeOps == {"fromSource", "toDestination", "all", "calculateFromSource",
             "calculateToDestination"}

\* C27: a run over the pairs of a source, of a destination or of the whole
\* matrix asks the Distance table which pairs exist with one query: it
\* never issues a second existence lookup, however many candidate pairs.
OneExistenceLookup ==
    \A r \in Requests : req[r].op \in ScopeOps => req[r].lookups <= 1

\* The rows of the scope of a run that its existence query found.
CachedAtStart(q) == {x \in q.existing : PairOf(x) \in ScopePairs(q)}

\* C28: a run over a scope that answers 200, complete or cut short by the
\* cap on new calculations or by the time budget, returns every row of its
\* scope that was cached when it started.
CachedRowsReturned ==
    \A r \in Requests :
        (Done(r) /\ req[r].op \in ScopeOps /\ req[r].status = 200)
            => CachedAtStart(req[r]) \subseteq ResponseRows(req[r])

\* The pairs of source 1 that have a route.
ViablePairs == ({1} \X destCoords) \ noRoute

\* C29: when the scope of a source is run again and again with the provider
\* available, every pair of the scope that has a route is cached in the end,
\* however many pairs of the scope have none.
ViablePairsEventuallyCached ==
    <>(\A p \in ViablePairs : HasRow(p[1], p[2]))

\* C30: every row of the Distance table holds the distance the provider
\* computed for the pair of that row, also when a request of a batch was
\* answered with fewer rows or elements than it asked for.
RowHoldsItsPair ==
    \A x \in DistanceRows : x.distance = PairOf(x)
====
